---- MODULE Spec2Model ----
(***************************************************************************)
(* Chia-Py-RPC: the wallet RPC client.  A wrapper object holds one         *)
(* connection (WalletRPCConnect / ChiaRPC); every wrapper method builds a  *)
(* payload dictionary from its arguments, serialises it, POSTs it to       *)
(* <url><rpc name> and parses the reply.                                   *)
(*                                                                         *)
(* Python values are written as their literals ("None", "0", "True",       *)
(* "'xch'", "[]"); a dict is the sequence of its <<key, value>> items in   *)
(* insertion order; a JSON text is the sequence of its <<key, literal>>    *)
(* members together with its indentation.                                  *)
(***************************************************************************)
EXTENDS Integers, Sequences, FiniteSets, TLC

VARIABLES
    lib,        \* the module in use: "chia_py_rpc.wallet" or "ChiaRPC"
    self_url,   \* the url argument given at construction (self.__url__)
    self_cert,  \* the cert argument given at construction (self.__cert__)
    rpc,        \* the connection object: [url, cert, headers]
    pc,         \* "idle": no call in progress; "returned": a call has ended
    calls,      \* number of invocations made so far
    nposts,     \* number of POSTs issued so far, over all invocations
    call,       \* the invocation that ended last: class, method, arguments, what the network did
    req,        \* the POST that invocation issued (NoReq when it issued none)
    sent,       \* number of POSTs that invocation issued
    result,     \* how that invocation ended: a returned value or a raised exception
    warnings,   \* urllib3's warnings in this process: "enabled" or "disabled"
    \* the payout script cats_out_the_bag.py
    world,          \* what the MintGarden API holds, and the script's use_nft_value setting
    nfts,           \* the items the API has served to the script so far, in order
    spc,            \* where the script is
    ci,             \* nft_ownership_data: position in collection_ids
    fc_page,        \* fetch_collection: params["page"] (NoPage: no such key)
    fc_items,       \* fetch_collection: data["items"]
    fc_log,         \* fetch_collection: the requests made so far and how each ended
    nft_values,     \* nft_ownership_data: the values of the collection's items
    zi,             \* nft_ownership_data: items of zip(...) processed
    ownership,      \* nft_ownership_data: the mapping, its records in insertion order
    addition_list,  \* __main__ / send_transactions: the additions to pay
    batch_i,        \* send_transactions: i of range(num_batches)
    transaction,    \* send_transactions: what the last send_transaction_multi returned
    events,         \* send_transactions: the sends and sleeps so far, in order
    crash           \* the exception the script died with (NoError: none)

client == <<lib, self_url, self_cert, rpc, pc, calls, nposts, call, req, sent, result,
            warnings>>
payout == <<world, nfts, spc, ci, fc_page, fc_items, fc_log, nft_values, zi, ownership,
            addition_list, batch_i, transaction, events, crash>>
vars == <<client, payout>>

(***************************************************************************)
(* Bounds of the model.                                                    *)
(***************************************************************************)
MaxCalls == 2       \* invocations per behaviour
MaxSupplied == 1    \* optional arguments a caller supplies in one invocation
MaxOwners == 26     \* owners in the largest collection the API serves
MaxAdditions == 51  \* longest addition list send_transactions is called with

(***************************************************************************)
(* Python values and the operators the wrappers apply to them.             *)
(***************************************************************************)
None == "None"
Required == "<required>"
NoError == ""

PyStr(s) == "'" \o s \o "'"
JsonStr(s) == "\"" \o s \o "\""

\* The strings that occur as values (arguments, defaults, reply values, messages).
RawStrings ==
    {"xch", "XCH", "new", "Connection refused", "Read timed out",
     "Expecting value: line 1 column 1 (char 0)",
     "'NoneType' object has no attribute 'lower'"}

StrValues == {PyStr(s) : s \in RawStrings}

\* bool(v)
Truthy(v) == v \notin {None, "False", "0", "", "''", "[]", "{}"}

\* (mutant) "is not None" where the code compares with 0
NotEqualZero_is_not_None(v) == v # None

\* v != 0  (False == 0 in Python)
NotEqualZero(v) == v \notin {"0", "False"}

\* (mutant) the default is never substituted
Or_keeps_left(x, y) == x

\* x or y
Or(x, y) == IF Truthy(x) THEN x ELSE y

\* type(v).__name__
TypeName(v) ==
    CASE v = None -> "NoneType"
      [] v \in {"True", "False"} -> "bool"
      [] v \in {"0", "1", "5", "100"} -> "int"
      [] v \in {"[]", "['a']"} -> "list"
      [] v \in {"{}", "{'a': 1}"} -> "dict"
      [] OTHER -> "str"

\* (mutant) the case is kept
lower_keeps_case(v) == v

\* str.lower(); only a str has the attribute
lower(v) ==
    IF v = PyStr("XCH") THEN PyStr("xch") ELSE v

\* the AttributeError that v.lower() raises when v is no str (NoError for a str)
lower_error(v) ==
    IF TypeName(v) = "str" THEN NoError
    ELSE "'" \o TypeName(v) \o "' object has no attribute 'lower'"

(***************************************************************************)
(* dict                                                                    *)
(***************************************************************************)
Keys(d) == {d[i][1] : i \in 1..Len(d)}

Get(d, k) == d[CHOOSE i \in 1..Len(d) : d[i][1] = k][2]

\* (mutant) the item is set only for a truthy value ("if value:")
SetItem_if_truthy(d, k, v) ==
    IF ~Truthy(v) THEN d
    ELSE IF k \in Keys(d)
    THEN [i \in 1..Len(d) |-> IF d[i][1] = k THEN <<k, v>> ELSE d[i]]
    ELSE Append(d, <<k, v>>)

\* d[k] = v
SetItem(d, k, v) ==
    IF k \in Keys(d)
    THEN [i \in 1..Len(d) |-> IF d[i][1] = k THEN <<k, v>> ELSE d[i]]
    ELSE Append(d, <<k, v>>)

(***************************************************************************)
(* json                                                                    *)
(***************************************************************************)
\* the JSON literal json.dumps writes for a value
ToJson(v) ==
    CASE v = None -> "null"
      [] v = "True" -> "true"
      [] v = "False" -> "false"
      [] v = "['a']" -> "[\"a\"]"
      [] v = "{'a': 1}" -> "{\"a\": 1}"
      [] v \in StrValues -> JsonStr(CHOOSE s \in RawStrings : PyStr(s) = v)
      [] OTHER -> v

\* the value json.loads reads from a JSON literal
FromJson(l) ==
    CASE l = "null" -> None
      [] l = "true" -> "True"
      [] l = "false" -> "False"
      [] l = "[\"a\"]" -> "['a']"
      [] l = "{\"a\": 1}" -> "{'a': 1}"
      [] l \in {JsonStr(s) : s \in RawStrings} -> PyStr(CHOOSE s \in RawStrings : JsonStr(s) = l)
      [] OTHER -> l

JsonLiterals ==
    {"null", "true", "false", "0", "1", "5", "100", "[]", "{}", "[\"a\"]", "{\"a\": 1}"}
        \cup {JsonStr(s) : s \in RawStrings}

\* json.loads accepts the text
IsJson(text) == \A i \in 1..Len(text.members) : text.members[i][2] \in JsonLiterals

JSONDecodeError == "Expecting value: line 1 column 1 (char 0)"

RECURSIVE LoadMembers(_)
LoadMembers(ms) ==
    IF ms = <<>> THEN <<>>
    ELSE LET n == Len(ms)
         IN  SetItem(LoadMembers(SubSeq(ms, 1, n - 1)), ms[n][1], FromJson(ms[n][2]))

\* json.loads(text) of a text json.loads accepts: a repeated key keeps its last value
json_loads(text) == LoadMembers(text.members)

\* the keys of the daemon's replies, in str order
KeyOrder ==
    <<"balance", "connections", "error", "success", "wallet_id">>

Rank(k) == CHOOSE i \in 1..Len(KeyOrder) : KeyOrder[i] = k

\* sorted(d.items()) by key
SortByKey(d) ==
    LET n == Len(d)
        pos(i) == 1 + Cardinality({j \in 1..n : Rank(d[j][1]) < Rank(d[i][1])})
    IN  IF n = 0 THEN <<>> ELSE [p \in 1..n |-> d[CHOOSE i \in 1..n : pos(i) = p]]

\* (mutant) the values written with str() instead of as JSON literals
json_dumps_str(d, indent, sort_keys) ==
    [indent |-> indent, members |-> d]

\* json.dumps(d, indent=indent, sort_keys=sort_keys); indent 0 stands for indent=None
json_dumps(d, indent, sort_keys) ==
    LET items == IF sort_keys THEN SortByKey(d) ELSE d
    IN  [indent |-> indent,
         members |-> IF items = <<>> THEN <<>>
                     ELSE [i \in 1..Len(items) |-> <<items[i][1], ToJson(items[i][2])>>]]

(***************************************************************************)
(* The connection: WalletRPCConnect (chia_py_rpc/rpc_connect.py) and the   *)
(* earlier ChiaRPC (ChiaRPC.py).                                           *)
(***************************************************************************)
default_url == "https://localhost:9256/"

NoCert == <<>>      \* cert=None

\* os.path.expanduser of the two default paths, for the home directory /home/chia
WalletRPCConnect_default_cert ==
    <<"/home/chia/.chia/mainnet/config/ssl/full_node/private_full_node.crt",
      "/home/chia/.chia/mainnet/config/ssl/full_node/private_full_node.key">>

\* the earlier revision writes the two paths with backslashes
ChiaRPC_default_cert ==
    <<"~\\.chia\\mainnet\\config\\ssl\\full_node\\private_full_node.crt",
      "~\\.chia\\mainnet\\config\\ssl\\full_node\\private_full_node.key">>

\* WalletRPCConnect.__init__(url, cert)
WalletRPCConnect__init__(url, cert) ==
    [url |-> Or(url, default_url),
     cert |-> IF cert # NoCert THEN cert ELSE WalletRPCConnect_default_cert,
     headers |-> << <<"Content-Type", "application/json">> >>]

\* ChiaRPC.__init__(url, cert)
ChiaRPC__init__(url, cert) ==
    [url |-> Or(url, default_url),
     cert |-> IF cert # NoCert THEN cert ELSE ChiaRPC_default_cert,
     headers |-> << <<"Content-Type", "application/json">> >>]

\* What is handed to requests.post as data=: a str (a JSON text) or a dict.
StrData(text) == [type |-> "str", indent |-> text.indent, members |-> text.members]
DictData(d) == [type |-> "dict", indent |-> 0, members |-> d]
NoData == [type |-> "", indent |-> 0, members |-> <<>>]

\* The body requests puts on the wire for data=: a str is sent as it is, a dict is
\* form-encoded, and an empty dict gives a request with no body.
WireBody(data) ==
    CASE data.type = "str" -> "text"
      [] data.type = "dict" /\ data.members = <<>> -> "empty"
      [] OTHER -> "form-urlencoded"

NoReq ==
    [method |-> "", url |-> "", data |-> NoData, body |-> "", headers |-> <<>>,
     cert |-> <<>>, verify |-> ""]

\* requests.post(url, data=data, headers=headers, cert=cert, verify=False)
requests_post(url, data, headers, cert) ==
    [method |-> "POST", url |-> url, data |-> data, body |-> WireBody(data),
     headers |-> headers, cert |-> cert, verify |-> "False"]

\* (mutant) a separator put between the base url and the rpc name
submit_with_slash(conn, chia_call, data, net) ==
    LET request == requests_post(conn.url \o "/" \o chia_call, data, conn.headers, conn.cert)
    IN  IF net.kind = "fail"
        THEN [request |-> request, raised |-> TRUE, msg |-> net.msg,
              text |-> [indent |-> 0, members |-> <<>>]]
        ELSE IF ~IsJson(net.body)
        THEN [request |-> request, raised |-> TRUE, msg |-> JSONDecodeError,
              text |-> [indent |-> 0, members |-> <<>>]]
        ELSE [request |-> request, raised |-> FALSE, msg |-> NoError,
              text |-> json_dumps(json_loads(net.body), 4, TRUE)]

\* submit(chia_call, data) of either connection class, when the network does net:
\* the request it issues, and the str it returns or the exception it raises.
submit(conn, chia_call, data, net) ==
    LET request == requests_post(conn.url \o chia_call, data, conn.headers, conn.cert)
    IN  IF net.kind = "fail"
        THEN [request |-> request, raised |-> TRUE, msg |-> net.msg,
              text |-> [indent |-> 0, members |-> <<>>]]
        ELSE IF ~IsJson(net.body)
        THEN [request |-> request, raised |-> TRUE, msg |-> JSONDecodeError,
              text |-> [indent |-> 0, members |-> <<>>]]
        ELSE [request |-> request, raised |-> FALSE, msg |-> NoError,
              text |-> json_dumps(json_loads(net.body), 4, TRUE)]

(***************************************************************************)
(* What the network does with one POST: the request fails (requests        *)
(* raises), or the daemon replies with a body.                             *)
(***************************************************************************)
Body(members) == [indent |-> 0, members |-> members]

\* the reply of the spec's round-trip scenario
BalanceReply ==
    Body(<< <<"success", "true">>, <<"wallet_id", "1">>, <<"balance", "100">> >>)

JsonReplies ==
    {BalanceReply,
     Body(<< <<"error", JsonStr("Connection refused")>> >>),
     Body(<< <<"success", "true">>, <<"connections", "[]">>, <<"success", "false">> >>)}

\* a body that is no JSON: a reply cut short
NonJsonReplies ==
    {Body(<< <<"success", "tru">> >>)}

Failures == {"Connection refused", "Read timed out"}

Net ==
    {[kind |-> "fail", msg |-> m, body |-> Body(<<>>)] : m \in Failures}
        \cup {[kind |-> "reply", msg |-> NoError, body |-> b] : b \in JsonReplies \cup NonJsonReplies}

(***************************************************************************)
(* The wrapper classes of chia_py_rpc/wallet.py.  For each class: its      *)
(* public methods, their signatures, and each method body as the rpc name  *)
(* it submits to, whether it is written inside try/except, how it passes   *)
(* the payload to submit, and the payload it builds from its arguments.    *)
(***************************************************************************)
SharedMethodsMethods ==
    {"close_connection", "get_connections", "get_routes",
     "check_healthz", "open_connection", "stop_node"}

SharedMethodsSignature(m) ==
    CASE m = "close_connection" ->
        <<<<"node_id", "str", Required>>>>
      [] m = "get_connections" ->
        <<>>
      [] m = "get_routes" ->
        <<>>
      [] m = "check_healthz" ->
        <<>>
      [] m = "open_connection" ->
        <<<<"ip", "str", Required>>, <<"port", "int", Required>>>>
      [] m = "stop_node" ->
        <<>>

SharedMethods(m, a) ==
    CASE m = "close_connection" ->
        LET payload0 == <<<<"node_id", a.node_id>>>>
        IN  [rpc |-> "close_connection", try |-> TRUE, pass |-> "dumps",
         err |-> NoError,
         payload |-> payload0]
      [] m = "get_connections" ->
        LET payload0 == <<>>
        IN  [rpc |-> "get_connections", try |-> TRUE, pass |-> "dumps",
         err |-> NoError,
         payload |-> payload0]
      [] m = "get_routes" ->
        LET payload0 == <<>>
        IN  [rpc |-> "get_routes", try |-> TRUE, pass |-> "dumps",
         err |-> NoError,
         payload |-> payload0]
      [] m = "check_healthz" ->
        LET payload0 == <<>>
        IN  [rpc |-> "healthz", try |-> TRUE, pass |-> "dumps",
         err |-> NoError,
         payload |-> payload0]
      [] m = "open_connection" ->
        LET payload0 == <<<<"ip", a.ip>>, <<"port", a.port>>>>
        IN  [rpc |-> "open_connection", try |-> TRUE, pass |-> "dumps",
         err |-> NoError,
         payload |-> payload0]
      [] m = "stop_node" ->
        LET payload0 == <<>>
        IN  [rpc |-> "stop_node", try |-> TRUE, pass |-> "dumps",
         err |-> NoError,
         payload |-> payload0]

CatWalletMethods ==
    {"cancel_offers", "cat_asset_id_to_name", "cancel_offer",
     "cat_get_asset_id", "cat_get_name", "cat_set_name",
     "cat_spend", "check_offer_validity", "create_offer_for_ids",
     "get_all_offers", "get_offer", "get_offer_summary",
     "get_offers_count", "get_stray_cats", "select_coins",
     "take_offer"}

CatWalletSignature(m) ==
    CASE m = "cancel_offers" ->
        <<<<"secure", "bool", Required>>, <<"batch_fee", "int", "0">>, <<"batch_size", "int", "5">>, <<"cancel_all", "bool", "False">>, <<"asset_id", "str", "'xch'">>>>
      [] m = "cat_asset_id_to_name" ->
        <<<<"asset_id", "str", Required>>>>
      [] m = "cancel_offer" ->
        <<<<"secure", "bool", Required>>, <<"trade_id", "str", Required>>, <<"fee", "int", None>>>>
      [] m = "cat_get_asset_id" ->
        <<<<"wallet_id", "int", Required>>>>
      [] m = "cat_get_name" ->
        <<<<"wallet_id", "int", Required>>>>
      [] m = "cat_set_name" ->
        <<<<"wallet_id", "int", Required>>, <<"name", "str", Required>>>>
      [] m = "cat_spend" ->
        <<<<"wallet_id", "str", Required>>, <<"inner_address", "str", Required>>, <<"coins", "list", None>>, <<"amount", "int", None>>, <<"fee", "int", None>>, <<"memos", "list", None>>, <<"min_coin_amount", "int", "0">>, <<"max_coin_amount", "int", "0">>, <<"exclude_coin_amounts", "list", None>>, <<"exclude_coin_ids", "list", None>>, <<"reuse_puzhash", "bool", "False">>>>
      [] m = "check_offer_validity" ->
        <<<<"offer", "str", Required>>>>
      [] m = "create_offer_for_ids" ->
        <<<<"offer", "str", Required>>, <<"driver_dict", "dict", None>>, <<"fee", "int", None>>, <<"validate_only", "bool", "False">>, <<"min_coin_amount", "int", None>>, <<"max_coin_amount", "int", None>>, <<"solver", "str", None>>, <<"reuse_puzhash", "bool", "False">>, <<"min_height", "int", None>>, <<"min_time", "int", None>>, <<"max_height", "int", None>>, <<"max_time", "int", None>>>>
      [] m = "get_all_offers" ->
        <<<<"start", "int", None>>, <<"end", "int", None>>, <<"exclude_my_offers", "bool", None>>, <<"exclude_taken_offers", "bool", None>>, <<"include_completed", "bool", None>>, <<"reverse", "bool", None>>, <<"file_contents", "bool", None>>, <<"sort_key", "str", None>>>>
      [] m = "get_offer" ->
        <<<<"trade_id", "str", Required>>, <<"file_contents", "bool", "True">>>>
      [] m = "get_offer_summary" ->
        <<<<"offer", "str", Required>>, <<"advanced", "bool", "False">>>>
      [] m = "get_offers_count" ->
        <<>>
      [] m = "get_stray_cats" ->
        <<>>
      [] m = "select_coins" ->
        <<<<"wallet_id", "int", Required>>, <<"amount", "int", Required>>, <<"min_coin_amount", "int", Required>>, <<"excluded_coins", "list", None>>, <<"max_coin_amount", "int", None>>, <<"exclude_coin_amounts", "list", None>>>>
      [] m = "take_offer" ->
        <<<<"offer", "str", Required>>, <<"fee", "int", None>>, <<"min_coin_amount", "int", None>>, <<"max_coin_amount", "int", None>>, <<"solver", "dict", None>>, <<"reuse_puzhash", "bool", "True">>>>

CatWallet(m, a) ==
    CASE m = "cancel_offers" ->
        LET data0 == <<<<"secure", a.secure>>, <<"batch_fee", a.batch_fee>>, <<"batch_size", a.batch_size>>, <<"cancel_all", a.cancel_all>>, <<"asset_id", lower(a.asset_id)>>>>
        IN  [rpc |-> "cancel_offers", try |-> TRUE, pass |-> "dumps",
         err |-> lower_error(a.asset_id),
         payload |-> data0]
      [] m = "cat_asset_id_to_name" ->
        LET data0 == <<<<"asset_id", a.asset_id>>>>
        IN  [rpc |-> "cat_asset_id_to_name", try |-> TRUE, pass |-> "dumps",
         err |-> NoError,
         payload |-> data0]
      [] m = "cancel_offer" ->
        LET data0 == <<<<"secure", a.secure>>, <<"trade_id", a.trade_id>>>>
            data1 == IF a.fee # None THEN SetItem(data0, "fee", a.fee) ELSE data0
        IN  [rpc |-> "cancel_offer", try |-> TRUE, pass |-> "dumps",
         err |-> NoError,
         payload |-> data1]
      [] m = "cat_get_asset_id" ->
        LET data0 == <<<<"wallet_id", a.wallet_id>>>>
        IN  [rpc |-> "cat_get_asset_id", try |-> TRUE, pass |-> "dumps",
         err |-> NoError,
         payload |-> data0]
      [] m = "cat_get_name" ->
        LET data0 == <<<<"wallet_id", a.wallet_id>>>>
        IN  [rpc |-> "cat_get_name", try |-> TRUE, pass |-> "dumps",
         err |-> NoError,
         payload |-> data0]
      [] m = "cat_set_name" ->
        LET data0 == <<<<"wallet_id", a.wallet_id>>, <<"name", a.name>>>>
        IN  [rpc |-> "cat_set_name", try |-> TRUE, pass |-> "dumps",
         err |-> NoError,
         payload |-> data0]
      [] m = "cat_spend" ->
        LET data0 == <<<<"wallet_id", a.wallet_id>>, <<"inner_address", a.inner_address>>>>
            data1 == IF a.coins # None THEN SetItem(data0, "coins", a.coins) ELSE data0
            data2 == IF a.amount # None THEN SetItem(data1, "amount", a.amount) ELSE data1
            data3 == IF a.fee # None THEN SetItem(data2, "fee", a.fee) ELSE data2
            data4 == IF a.memos # None THEN SetItem(data3, "memos", a.memos) ELSE data3
            data5 == IF NotEqualZero(a.min_coin_amount) THEN SetItem(data4, "min_coin_amount", a.min_coin_amount) ELSE data4
            data6 == IF NotEqualZero(a.max_coin_amount) THEN SetItem(data5, "max_coin_amount", a.max_coin_amount) ELSE data5
            data7 == IF a.exclude_coin_amounts # None THEN SetItem(data6, "exclude_coin_amounts", a.exclude_coin_amounts) ELSE data6
            data8 == IF a.exclude_coin_ids # None THEN SetItem(data7, "exclude_coin_ids", a.exclude_coin_ids) ELSE data7
            data9 == IF Truthy(a.reuse_puzhash) THEN SetItem(data8, "reuse_puzhash", a.reuse_puzhash) ELSE data8
        IN  [rpc |-> "cat_spend", try |-> TRUE, pass |-> "dumps",
         err |-> NoError,
         payload |-> data9]
      [] m = "check_offer_validity" ->
        LET data0 == <<<<"offer", a.offer>>>>
        IN  [rpc |-> "check_offer_validity", try |-> TRUE, pass |-> "dumps",
         err |-> NoError,
         payload |-> data0]
      [] m = "create_offer_for_ids" ->
        LET driver_dict == IF a.driver_dict = None THEN "{}" ELSE a.driver_dict
            data0 == <<<<"offer", a.offer>>, <<"driver_dict", driver_dict>>>>
            data1 == IF a.fee # None THEN SetItem(data0, "fee", a.fee) ELSE data0
            data2 == IF a.validate_only # None THEN SetItem(data1, "validate_only", a.validate_only) ELSE data1
            data3 == IF a.min_coin_amount # None THEN SetItem(data2, "min_coin_amount", a.min_coin_amount) ELSE data2
            data4 == IF a.max_coin_amount # None THEN SetItem(data3, "max_coin_amount", a.max_coin_amount) ELSE data3
            data5 == IF a.solver # None THEN SetItem(data4, "solver", a.solver) ELSE data4
            data6 == IF a.reuse_puzhash # None THEN SetItem(data5, "reuse_puzhash", a.reuse_puzhash) ELSE data5
            data7 == IF a.min_height # None THEN SetItem(data6, "min_height", a.min_height) ELSE data6
            data8 == IF a.min_time # None THEN SetItem(data7, "min_time", a.min_time) ELSE data7
            data9 == IF a.max_height # None THEN SetItem(data8, "max_height", a.max_height) ELSE data8
            data10 == IF a.max_time # None THEN SetItem(data9, "max_time", a.max_time) ELSE data9
        IN  [rpc |-> "create_offer_for_ids", try |-> TRUE, pass |-> "dumps",
         err |-> NoError,
         payload |-> data10]
      [] m = "get_all_offers" ->
        LET data0 == <<>>
            data1 == IF a.start # None THEN SetItem(data0, "start", a.start) ELSE data0
            data2 == IF a.end # None THEN SetItem(data1, "end", a.end) ELSE data1
            data3 == IF a.exclude_my_offers # None THEN SetItem(data2, "exclude_my_offers", a.exclude_my_offers) ELSE data2
            data4 == IF a.exclude_taken_offers # None THEN SetItem(data3, "exclude_taken_offers", a.exclude_taken_offers) ELSE data3
            data5 == IF a.include_completed # None THEN SetItem(data4, "include_completed", a.include_completed) ELSE data4
            data6 == IF a.reverse # None THEN SetItem(data5, "reverse", a.reverse) ELSE data5
            data7 == IF a.file_contents # None THEN SetItem(data6, "file_contents", a.file_contents) ELSE data6
            data8 == IF a.sort_key # None THEN SetItem(data7, "sort_key", a.sort_key) ELSE data7
        IN  [rpc |-> "get_all_offers", try |-> TRUE, pass |-> "dumps",
         err |-> NoError,
         payload |-> data8]
      [] m = "get_offer" ->
        LET data0 == <<<<"trade_id", a.trade_id>>, <<"file_contents", a.file_contents>>>>
        IN  [rpc |-> "get_offer", try |-> TRUE, pass |-> "dumps",
         err |-> NoError,
         payload |-> data0]
      [] m = "get_offer_summary" ->
        LET data0 == <<<<"offer", a.offer>>, <<"advanced", a.advanced>>>>
        IN  [rpc |-> "get_offer_summary", try |-> TRUE, pass |-> "dumps",
         err |-> NoError,
         payload |-> data0]
      [] m = "get_offers_count" ->
        LET data0 == <<>>
        IN  [rpc |-> "get_offers_count", try |-> TRUE, pass |-> "dumps",
         err |-> NoError,
         payload |-> data0]
      [] m = "get_stray_cats" ->
        LET data0 == <<>>
        IN  [rpc |-> "get_stray_cats", try |-> TRUE, pass |-> "dumps",
         err |-> NoError,
         payload |-> data0]
      [] m = "select_coins" ->
        LET data0 == <<<<"wallet_id", a.wallet_id>>, <<"amount", a.amount>>, <<"min_coin_amount", a.min_coin_amount>>, <<"excluded_coins", a.excluded_coins>>, <<"max_coin_amount", a.max_coin_amount>>, <<"exclude_coin_amounts", a.exclude_coin_amounts>>>>
        IN  [rpc |-> "select_coins", try |-> TRUE, pass |-> "dumps",
         err |-> NoError,
         payload |-> data0]
      [] m = "take_offer" ->
        LET data0 == <<<<"offer", a.offer>>, <<"fee", a.fee>>, <<"min_coin_amount", a.min_coin_amount>>, <<"max_coin_amount", a.max_coin_amount>>, <<"solver", a.solver>>, <<"reuse_puzhash", a.reuse_puzhash>>>>
        IN  [rpc |-> "take_offer", try |-> TRUE, pass |-> "dumps",
         err |-> NoError,
         payload |-> data0]

DidWalletMethods ==
    {"did_create_attest", "did_create_backup_file", "did_find_lost_did",
     "did_get_current_coin_info", "did_get_did", "did_get_info",
     "did_get_information_needed_for_recovery", "did_get_metadata", "did_get_pubkey",
     "did_get_recovery_list", "did_get_wallet_name", "did_message_spend",
     "did_recovery_spend", "did_set_wallet_name", "did_transfer_did",
     "did_update_metadata", "did_update_recovery_ids"}

DidWalletSignature(m) ==
    CASE m = "did_create_attest" ->
        <<<<"wallet_id", "int", Required>>, <<"coin_name", "str", Required>>, <<"pubkey", "str", Required>>, <<"puzhash", "str", Required>>>>
      [] m = "did_create_backup_file" ->
        <<<<"wallet_id", "int", Required>>>>
      [] m = "did_find_lost_did" ->
        <<<<"coin_id", "str", Required>>>>
      [] m = "did_get_current_coin_info" ->
        <<<<"wallet_id", "int", Required>>>>
      [] m = "did_get_did" ->
        <<<<"wallet_id", "int", Required>>>>
      [] m = "did_get_info" ->
        <<<<"coin_id", "str", Required>>, <<"latest", "bool", "True">>>>
      [] m = "did_get_information_needed_for_recovery" ->
        <<<<"wallet_id", "int", Required>>>>
      [] m = "did_get_metadata" ->
        <<<<"wallet_id", "int", Required>>>>
      [] m = "did_get_pubkey" ->
        <<<<"wallet_id", "int", Required>>>>
      [] m = "did_get_recovery_list" ->
        <<<<"wallet_id", "int", Required>>>>
      [] m = "did_get_wallet_name" ->
        <<<<"wallet_id", "int", Required>>>>
      [] m = "did_message_spend" ->
        <<<<"wallet_id", "int", Required>>, <<"coin_announcements", "list", Required>>, <<"puzzle_announcements", "list", Required>>>>
      [] m = "did_recovery_spend" ->
        <<<<"wallet_id", "int", Required>>, <<"attest_data", "list", Required>>, <<"pubkey", "str", Required>>, <<"puzhash", "str", Required>>>>
      [] m = "did_set_wallet_name" ->
        <<<<"wallet_id", "int", Required>>, <<"name", "str", Required>>>>
      [] m = "did_transfer_did" ->
        <<<<"wallet_id", "int", Required>>, <<"inner_address", "str", Required>>, <<"fee", "int", Required>>, <<"with_recovery_info", "bool", Required>>, <<"reuse_puzhash", "bool", Required>>>>
      [] m = "did_update_metadata" ->
        <<<<"wallet_id", "int", Required>>, <<"metadata", "dict", Required>>, <<"fee", "int", "0">>, <<"reuse_puzhash", "bool", "True">>>>
      [] m = "did_update_recovery_ids" ->
        <<<<"wallet_id", "int", Required>>, <<"new_list", "list", Required>>, <<"num_verifications_required", "int", "0">>, <<"reuse_puzhash", "bool", "True">>>>

DidWallet(m, a) ==
    CASE m = "did_create_attest" ->
        LET payload0 == <<<<"wallet_id", a.wallet_id>>, <<"coin_name", a.coin_name>>, <<"pubkey", a.pubkey>>, <<"puzhash", a.puzhash>>>>
        IN  [rpc |-> "did_create_attest", try |-> FALSE, pass |-> "dumps",
         err |-> NoError,
         payload |-> payload0]
      [] m = "did_create_backup_file" ->
        LET payload0 == <<<<"wallet_id", a.wallet_id>>>>
        IN  [rpc |-> "did_create_backup_file", try |-> FALSE, pass |-> "dumps",
         err |-> NoError,
         payload |-> payload0]
      [] m = "did_find_lost_did" ->
        LET payload0 == <<<<"coin_id", a.coin_id>>>>
        IN  [rpc |-> "did_find_lost_did", try |-> FALSE, pass |-> "dumps",
         err |-> NoError,
         payload |-> payload0]
      [] m = "did_get_current_coin_info" ->
        LET payload0 == <<<<"wallet_id", a.wallet_id>>>>
        IN  [rpc |-> "did_get_current_coin_info", try |-> FALSE, pass |-> "dumps",
         err |-> NoError,
         payload |-> payload0]
      [] m = "did_get_did" ->
        LET payload0 == <<<<"wallet_id", a.wallet_id>>>>
        IN  [rpc |-> "did_get_did", try |-> FALSE, pass |-> "dumps",
         err |-> NoError,
         payload |-> payload0]
      [] m = "did_get_info" ->
        LET payload0 == <<<<"coin_id", a.coin_id>>, <<"latest", a.latest>>>>
        IN  [rpc |-> "did_get_info", try |-> FALSE, pass |-> "dumps",
         err |-> NoError,
         payload |-> payload0]
      [] m = "did_get_information_needed_for_recovery" ->
        LET payload0 == <<<<"wallet_id", a.wallet_id>>>>
        IN  [rpc |-> "did_get_information_needed_for_recovery", try |-> FALSE, pass |-> "dumps",
         err |-> NoError,
         payload |-> payload0]
      [] m = "did_get_metadata" ->
        LET payload0 == <<<<"wallet_id", a.wallet_id>>>>
        IN  [rpc |-> "did_get_metadata", try |-> FALSE, pass |-> "dumps",
         err |-> NoError,
         payload |-> payload0]
      [] m = "did_get_pubkey" ->
        LET payload0 == <<<<"wallet_id", a.wallet_id>>>>
        IN  [rpc |-> "did_get_pubkey", try |-> FALSE, pass |-> "dumps",
         err |-> NoError,
         payload |-> payload0]
      [] m = "did_get_recovery_list" ->
        LET payload0 == <<<<"wallet_id", a.wallet_id>>>>
        IN  [rpc |-> "did_get_recovery_list", try |-> FALSE, pass |-> "dumps",
         err |-> NoError,
         payload |-> payload0]
      [] m = "did_get_wallet_name" ->
        LET payload0 == <<<<"wallet_id", a.wallet_id>>>>
        IN  [rpc |-> "did_get_wallet_name", try |-> FALSE, pass |-> "dumps",
         err |-> NoError,
         payload |-> payload0]
      [] m = "did_message_spend" ->
        LET payload0 == <<<<"wallet_id", a.wallet_id>>, <<"coin_announcements", a.coin_announcements>>, <<"puzzle_announcements", a.puzzle_announcements>>>>
        IN  [rpc |-> "did_message_spend", try |-> FALSE, pass |-> "dumps",
         err |-> NoError,
         payload |-> payload0]
      [] m = "did_recovery_spend" ->
        LET payload0 == <<<<"wallet_id", a.wallet_id>>, <<"attest_data", a.attest_data>>, <<"pubkey", a.pubkey>>, <<"puzhash", a.puzhash>>>>
        IN  [rpc |-> "did_recovery_spend", try |-> FALSE, pass |-> "dumps",
         err |-> NoError,
         payload |-> payload0]
      [] m = "did_set_wallet_name" ->
        LET payload0 == <<<<"wallet_id", a.wallet_id>>, <<"name", a.name>>>>
        IN  [rpc |-> "did_set_wallet_name", try |-> FALSE, pass |-> "dumps",
         err |-> NoError,
         payload |-> payload0]
      [] m = "did_transfer_did" ->
        LET payload0 == <<<<"wallet_id", a.wallet_id>>, <<"inner_address", a.inner_address>>, <<"fee", a.fee>>, <<"with_recovery_info", a.with_recovery_info>>, <<"reuse_puzhash", a.reuse_puzhash>>>>
        IN  [rpc |-> "did_transfer_did", try |-> FALSE, pass |-> "dumps",
         err |-> NoError,
         payload |-> payload0]
      [] m = "did_update_metadata" ->
        LET payload0 == <<<<"wallet_id", a.wallet_id>>, <<"metadata", a.metadata>>, <<"fee", a.fee>>, <<"reuse_puzhash", a.reuse_puzhash>>>>
        IN  [rpc |-> "did_update_metadata", try |-> FALSE, pass |-> "dumps",
         err |-> NoError,
         payload |-> payload0]
      [] m = "did_update_recovery_ids" ->
        LET payload0 == <<<<"wallet_id", a.wallet_id>>, <<"new_list", a.new_list>>, <<"num_verifications_required", a.num_verifications_required>>, <<"reuse_puzhash", a.reuse_puzhash>>>>
        IN  [rpc |-> "did_update_recovery_ids", try |-> FALSE, pass |-> "dumps",
         err |-> NoError,
         payload |-> payload0]

KeyManagementMethods ==
    {"add_key", "check_delete_key", "wallet_delete_all_keys",
     "delete_key", "generate_mnemonic", "get_logged_in_fingerprint",
     "get_private_key", "get_public_keys", "log_in",
     "verify_signature"}

KeyManagementSignature(m) ==
    CASE m = "add_key" ->
        <<<<"mnemonic", "list", Required>>>>
      [] m = "check_delete_key" ->
        <<<<"fingerprint", "int", Required>>>>
      [] m = "wallet_delete_all_keys" ->
        <<>>
      [] m = "delete_key" ->
        <<<<"fingerprint", "int", Required>>>>
      [] m = "generate_mnemonic" ->
        <<>>
      [] m = "get_logged_in_fingerprint" ->
        <<>>
      [] m = "get_private_key" ->
        <<<<"fingerprint", "int", Required>>>>
      [] m = "get_public_keys" ->
        <<>>
      [] m = "log_in" ->
        <<<<"fingerprint", "int", Required>>>>
      [] m = "verify_signature" ->
        <<<<"pubkey", "str", Required>>, <<"message", "str", Required>>, <<"signature", "str", Required>>, <<"address", "str", Required>>, <<"signing_mode", "str", Required>>>>

KeyManagement(m, a) ==
    CASE m = "add_key" ->
        LET payload0 == <<<<"mnemonic", a.mnemonic>>>>
        IN  [rpc |-> "add_key", try |-> FALSE, pass |-> "dumps",
         err |-> NoError,
         payload |-> payload0]
      [] m = "check_delete_key" ->
        LET payload0 == <<<<"fingerprint", a.fingerprint>>>>
        IN  [rpc |-> "check_delete_key", try |-> FALSE, pass |-> "dumps",
         err |-> NoError,
         payload |-> payload0]
      [] m = "wallet_delete_all_keys" ->
        LET payload0 == <<>>
        IN  [rpc |-> "wallet_delete_all_keys", try |-> FALSE, pass |-> "dumps",
         err |-> NoError,
         payload |-> payload0]
      [] m = "delete_key" ->
        LET payload0 == <<<<"fingerprint", a.fingerprint>>>>
        IN  [rpc |-> "delete_key", try |-> FALSE, pass |-> "dumps",
         err |-> NoError,
         payload |-> payload0]
      [] m = "generate_mnemonic" ->
        [rpc |-> "generate_mnemonic", try |-> FALSE, pass |-> "literal",
         err |-> NoError,
         payload |-> <<>>]
      [] m = "get_logged_in_fingerprint" ->
        LET payload0 == <<>>
        IN  [rpc |-> "get_logged_in_fingerprint", try |-> FALSE, pass |-> "raw",
         err |-> NoError,
         payload |-> payload0]
      [] m = "get_private_key" ->
        LET payload0 == <<<<"fingerprint", a.fingerprint>>>>
        IN  [rpc |-> "get_private_key", try |-> FALSE, pass |-> "dumps",
         err |-> NoError,
         payload |-> payload0]
      [] m = "get_public_keys" ->
        LET payload0 == <<>>
        IN  [rpc |-> "get_public_keys", try |-> FALSE, pass |-> "dumps",
         err |-> NoError,
         payload |-> payload0]
      [] m = "log_in" ->
        LET payload0 == <<<<"fingerprint", a.fingerprint>>>>
        IN  [rpc |-> "log_in", try |-> FALSE, pass |-> "dumps",
         err |-> NoError,
         payload |-> payload0]
      [] m = "verify_signature" ->
        LET payload0 == <<<<"pubkey", a.pubkey>>, <<"message", a.message>>, <<"signature", a.signature>>, <<"address", a.address>>, <<"signing_mode", a.signing_mode>>>>
        IN  [rpc |-> "verify_signature", try |-> FALSE, pass |-> "dumps",
         err |-> NoError,
         payload |-> payload0]

PoolWalletMethods ==
    {"pw_absorb_rewards", "pw_join_pool", "pw_self_pool",
     "pw_status"}

PoolWalletSignature(m) ==
    CASE m = "pw_absorb_rewards" ->
        <<<<"wallet_id", "int", Required>>, <<"fee", "int", Required>>>>
      [] m = "pw_join_pool" ->
        <<<<"wallet_id", "int", Required>>, <<"target_puzzlehash", "str", Required>>, <<"pool___url", "str", Required>>, <<"relative_lock_height", "int", Required>>, <<"fee", "int", Required>>>>
      [] m = "pw_self_pool" ->
        <<<<"wallet_id", "int", Required>>, <<"fee", "int", Required>>>>
      [] m = "pw_status" ->
        <<<<"wallet_id", "int", Required>>>>

PoolWallet(m, a) ==
    CASE m = "pw_absorb_rewards" ->
        LET payload0 == <<<<"wallet_id", a.wallet_id>>, <<"fee", a.fee>>>>
        IN  [rpc |-> "pw_absorb_rewards", try |-> FALSE, pass |-> "dumps",
         err |-> NoError,
         payload |-> payload0]
      [] m = "pw_join_pool" ->
        LET payload0 == <<<<"wallet_id", a.wallet_id>>, <<"target_puzzlehash", a.target_puzzlehash>>, <<"pool___url", a.pool___url>>, <<"relative_lock_height", a.relative_lock_height>>, <<"fee", a.fee>>>>
        IN  [rpc |-> "pw_join_pool", try |-> FALSE, pass |-> "dumps",
         err |-> NoError,
         payload |-> payload0]
      [] m = "pw_self_pool" ->
        LET payload0 == <<<<"wallet_id", a.wallet_id>>, <<"fee", a.fee>>>>
        IN  [rpc |-> "pw_self_pool", try |-> FALSE, pass |-> "dumps",
         err |-> NoError,
         payload |-> payload0]
      [] m = "pw_status" ->
        LET payload0 == <<<<"wallet_id", a.wallet_id>>>>
        IN  [rpc |-> "pw_status", try |-> FALSE, pass |-> "dumps",
         err |-> NoError,
         payload |-> payload0]

NotificationsMethods ==
    {"delete_notifications", "get_notifications", "send_notification",
     "sign_message_by_address", "sign_message_by_id"}

NotificationsSignature(m) ==
    CASE m = "delete_notifications" ->
        <<<<"ids", "list", Required>>>>
      [] m = "get_notifications" ->
        <<<<"ids", "list", Required>>, <<"start", "int", Required>>, <<"end", "int", Required>>>>
      [] m = "send_notification" ->
        <<<<"target", "str", Required>>, <<"message", "str", Required>>, <<"amount", "int", Required>>, <<"fee", "int", Required>>>>
      [] m = "sign_message_by_address" ->
        <<<<"address", "str", Required>>, <<"message", "str", Required>>, <<"is_hex", "bool", "False">>>>
      [] m = "sign_message_by_id" ->
        <<<<"id", "str", Required>>, <<"message", "str", Required>>, <<"is_hex", "bool", "False">>>>

Notifications(m, a) ==
    CASE m = "delete_notifications" ->
        LET payload0 == <<<<"ids", a.ids>>>>
        IN  [rpc |-> "delete_notifications", try |-> FALSE, pass |-> "dumps",
         err |-> NoError,
         payload |-> payload0]
      [] m = "get_notifications" ->
        LET payload0 == <<<<"ids", a.ids>>, <<"start", a.start>>, <<"end", a.end>>>>
        IN  [rpc |-> "get_notifications", try |-> FALSE, pass |-> "dumps",
         err |-> NoError,
         payload |-> payload0]
      [] m = "send_notification" ->
        LET payload0 == <<<<"target", a.target>>, <<"message", a.message>>, <<"amount", a.amount>>, <<"fee", a.fee>>>>
        IN  [rpc |-> "send_notification", try |-> FALSE, pass |-> "dumps",
         err |-> NoError,
         payload |-> payload0]
      [] m = "sign_message_by_address" ->
        LET payload0 == <<<<"address", a.address>>, <<"message", a.message>>, <<"is_hex", a.is_hex>>>>
        IN  [rpc |-> "sign_message_by_address", try |-> FALSE, pass |-> "dumps",
         err |-> NoError,
         payload |-> payload0]
      [] m = "sign_message_by_id" ->
        LET payload0 == <<<<"id", a.id>>, <<"message", a.message>>, <<"is_hex", a.is_hex>>>>
        IN  [rpc |-> "sign_message_by_id", try |-> FALSE, pass |-> "dumps",
         err |-> NoError,
         payload |-> payload0]

WalletMethods ==
    {"create_signed_transaction", "delete_unconfirmed_transactions", "extend_derivation_index",
     "get_current_derivation_index", "get_farmed_amount", "get_next_address",
     "get_spendable_coins", "get_transaction", "get_wallet_transaction_count",
     "get_transaction_memo", "get_transactions", "get_wallet_balance",
     "send_transaction", "send_transaction_multi"}

WalletSignature(m) ==
    CASE m = "create_signed_transaction" ->
        <<<<"wallet_id", "int", Required>>, <<"additions", "list", Required>>, <<"fee", "int", Required>>, <<"coins", "list", Required>>, <<"coin_announcements", "list", None>>, <<"puzzle_announcements", "list", None>>, <<"min_coin_amount", "int", "0">>, <<"max_coin_amount", "int", "0">>, <<"excluded_coins", "list", None>>, <<"excluded_coin_amounts", "list", None>>>>
      [] m = "delete_unconfirmed_transactions" ->
        <<<<"wallet_id", "int", Required>>>>
      [] m = "extend_derivation_index" ->
        <<<<"index", "int", Required>>>>
      [] m = "get_current_derivation_index" ->
        <<>>
      [] m = "get_farmed_amount" ->
        <<>>
      [] m = "get_next_address" ->
        <<<<"wallet_id", "int", Required>>, <<"new_address", "bool", "True">>>>
      [] m = "get_spendable_coins" ->
        <<<<"wallet_id", "int", Required>>, <<"min_coin_amount", "int", "0">>, <<"max_coin_amount", "int", "0">>, <<"excluded_coin_amounts", "list", None>>, <<"excluded_coins", "list", None>>, <<"excluded_coin_ids", "list", None>>>>
      [] m = "get_transaction" ->
        <<<<"transaction_id", "str", Required>>>>
      [] m = "get_wallet_transaction_count" ->
        <<<<"wallet_id", "int", Required>>>>
      [] m = "get_transaction_memo" ->
        <<<<"transaction_id", "str", Required>>>>
      [] m = "get_transactions" ->
        <<<<"wallet_id", "int", Required>>, <<"start", "int", Required>>, <<"end", "int", Required>>, <<"sort_key", "str", Required>>, <<"reverse", "bool", Required>>>>
      [] m = "get_wallet_balance" ->
        <<<<"wallet_id", "int", Required>>>>
      [] m = "send_transaction" ->
        <<<<"wallet_id", "int", Required>>, <<"amount", "int", Required>>, <<"address", "str", Required>>, <<"fee", "int", None>>, <<"memos", "list", None>>, <<"min_coin_amount", "int", None>>, <<"max_coin_amount", "int", None>>, <<"exclude_coin_amounts", "list", None>>, <<"exclude_coin_ids", "list", None>>, <<"reuse_puzhash", "bool", "True">>>>
      [] m = "send_transaction_multi" ->
        <<<<"wallet_id", "int", Required>>, <<"additions", "list", Required>>, <<"fee", "int", "0">>, <<"coins", "list", None>>, <<"coin_announcements", "str", None>>, <<"puzzle_announcements", "str", None>>>>

Wallet(m, a) ==
    CASE m = "create_signed_transaction" ->
        LET payload0 == <<<<"wallet_id", a.wallet_id>>, <<"additions", a.additions>>, <<"fee", a.fee>>, <<"coins", a.coins>>, <<"coin_announcements", a.coin_announcements>>, <<"puzzle_announcements", a.puzzle_announcements>>, <<"min_coin_amount", a.min_coin_amount>>, <<"max_coin_amount", a.max_coin_amount>>, <<"excluded_coins", a.excluded_coins>>, <<"excluded_coin_amounts", a.excluded_coin_amounts>>>>
        IN  [rpc |-> "create_signed_transaction", try |-> FALSE, pass |-> "dumps",
         err |-> NoError,
         payload |-> payload0]
      [] m = "delete_unconfirmed_transactions" ->
        LET payload0 == <<<<"wallet_id", a.wallet_id>>>>
        IN  [rpc |-> "delete_unconfirmed_transactions", try |-> FALSE, pass |-> "dumps",
         err |-> NoError,
         payload |-> payload0]
      [] m = "extend_derivation_index" ->
        LET payload0 == <<<<"index", a.index>>>>
        IN  [rpc |-> "extend_derivation_index", try |-> FALSE, pass |-> "dumps",
         err |-> NoError,
         payload |-> payload0]
      [] m = "get_current_derivation_index" ->
        [rpc |-> "get_current_derivation_index", try |-> FALSE, pass |-> "dumps",
         err |-> NoError,
         payload |-> <<>>]
      [] m = "get_farmed_amount" ->
        [rpc |-> "get_farmed_amount", try |-> FALSE, pass |-> "dumps",
         err |-> NoError,
         payload |-> <<>>]
      [] m = "get_next_address" ->
        LET payload0 == <<<<"wallet_id", a.wallet_id>>, <<"new_address", a.new_address>>>>
        IN  [rpc |-> "get_next_address", try |-> FALSE, pass |-> "dumps",
         err |-> NoError,
         payload |-> payload0]
      [] m = "get_spendable_coins" ->
        LET payload0 == <<<<"wallet_id", a.wallet_id>>, <<"min_coin_amount", a.min_coin_amount>>, <<"max_coin_amount", a.max_coin_amount>>, <<"excluded_coin_amounts", Or(a.excluded_coin_amounts, "[]")>>, <<"excluded_coins", Or(a.excluded_coins, "[]")>>, <<"excluded_coin_ids", Or(a.excluded_coin_ids, "[]")>>>>
        IN  [rpc |-> "get_spendable_coins", try |-> FALSE, pass |-> "dumps",
         err |-> NoError,
         payload |-> payload0]
      [] m = "get_transaction" ->
        LET payload0 == <<<<"transaction_id", a.transaction_id>>>>
        IN  [rpc |-> "get_transaction", try |-> FALSE, pass |-> "dumps",
         err |-> NoError,
         payload |-> payload0]
      [] m = "get_wallet_transaction_count" ->
        LET payload0 == <<<<"wallet_id", a.wallet_id>>>>
        IN  [rpc |-> "get_transaction_count", try |-> FALSE, pass |-> "dumps",
         err |-> NoError,
         payload |-> payload0]
      [] m = "get_transaction_memo" ->
        LET payload0 == <<<<"transaction_id", a.transaction_id>>>>
        IN  [rpc |-> "get_transaction_memo", try |-> FALSE, pass |-> "dumps",
         err |-> NoError,
         payload |-> payload0]
      [] m = "get_transactions" ->
        LET payload0 == <<<<"wallet_id", a.wallet_id>>, <<"start", a.start>>, <<"end", a.end>>, <<"sort_key", a.sort_key>>, <<"reverse", a.reverse>>>>
        IN  [rpc |-> "get_transactions", try |-> FALSE, pass |-> "dumps",
         err |-> NoError,
         payload |-> payload0]
      [] m = "get_wallet_balance" ->
        LET payload0 == <<<<"wallet_id", a.wallet_id>>>>
        IN  [rpc |-> "get_wallet_balance", try |-> FALSE, pass |-> "dumps",
         err |-> NoError,
         payload |-> payload0]
      [] m = "send_transaction" ->
        LET payload0 == <<<<"wallet_id", a.wallet_id>>, <<"amount", a.amount>>, <<"address", a.address>>, <<"reuse_puzhash", a.reuse_puzhash>>>>
            payload1 == IF a.fee # None THEN SetItem(payload0, "fee", a.fee) ELSE payload0
            payload2 == IF a.memos # None THEN SetItem(payload1, "memos", a.memos) ELSE payload1
            payload3 == IF a.min_coin_amount # None THEN SetItem(payload2, "min_coin_amount", a.min_coin_amount) ELSE payload2
            payload4 == IF a.max_coin_amount # None THEN SetItem(payload3, "max_coin_amount", a.max_coin_amount) ELSE payload3
            payload5 == IF a.exclude_coin_amounts # None THEN SetItem(payload4, "exclude_coin_amounts", a.exclude_coin_amounts) ELSE payload4
            payload6 == IF a.exclude_coin_ids # None THEN SetItem(payload5, "exclude_coin_ids", a.exclude_coin_ids) ELSE payload5
        IN  [rpc |-> "send_transaction", try |-> FALSE, pass |-> "dumps",
         err |-> NoError,
         payload |-> payload6]
      [] m = "send_transaction_multi" ->
        LET payload0 == <<<<"wallet_id", a.wallet_id>>, <<"additions", a.additions>>, <<"fee", a.fee>>>>
            payload1 == IF a.coins # None THEN SetItem(payload0, "coins", a.coins) ELSE payload0
            payload2 == IF a.coin_announcements # None THEN SetItem(payload1, "coin_announcements", a.coin_announcements) ELSE payload1
            payload3 == IF a.puzzle_announcements # None THEN SetItem(payload2, "puzzle_announcements", a.puzzle_announcements) ELSE payload2
        IN  [rpc |-> "send_transaction_multi", try |-> FALSE, pass |-> "dumps",
         err |-> NoError,
         payload |-> payload3]

WalletManagementMethods ==
    {"create_new_wallet", "get_wallets"}

WalletManagementSignature(m) ==
    CASE m = "create_new_wallet" ->
        <<<<"wallet_type", "str", Required>>, <<"name", "str", Required>>, <<"amount", "int", Required>>, <<"fee", "int", Required>>, <<"mode", "str", "'new'">>, <<"asset_id", "str", None>>>>
      [] m = "get_wallets" ->
        <<<<"wallet_type", "int", "0">>, <<"include_data", "bool", "True">>>>

WalletManagement(m, a) ==
    CASE m = "create_new_wallet" ->
        LET payload0 == <<<<"wallet_type", a.wallet_type>>, <<"name", a.name>>, <<"amount", a.amount>>, <<"fee", a.fee>>, <<"mode", a.mode>>, <<"asset_id", a.asset_id>>>>
        IN  [rpc |-> "create_new_wallet", try |-> FALSE, pass |-> "dumps",
         err |-> NoError,
         payload |-> payload0]
      [] m = "get_wallets" ->
        LET payload0 == <<<<"type", a.wallet_type>>, <<"include_data", a.include_data>>>>
        IN  [rpc |-> "get_wallets", try |-> FALSE, pass |-> "dumps",
         err |-> NoError,
         payload |-> payload0]

WalletNodeMethods ==
    {"get_height_info", "get_network_info", "get_sync_status",
     "get_timestamp_for_height", "push_transactions", "push_transaction",
     "set_wallet_resync_on_startup"}

WalletNodeSignature(m) ==
    CASE m = "get_height_info" ->
        <<>>
      [] m = "get_network_info" ->
        <<>>
      [] m = "get_sync_status" ->
        <<>>
      [] m = "get_timestamp_for_height" ->
        <<<<"height", "int", Required>>>>
      [] m = "push_transactions" ->
        <<>>
      [] m = "push_transaction" ->
        <<<<"transactions", "list", Required>>>>
      [] m = "set_wallet_resync_on_startup" ->
        <<<<"enable", "bool", Required>>>>

WalletNode(m, a) ==
    CASE m = "get_height_info" ->
        LET payload0 == <<>>
        IN  [rpc |-> "get_height_info", try |-> FALSE, pass |-> "dumps",
         err |-> NoError,
         payload |-> payload0]
      [] m = "get_network_info" ->
        LET payload0 == <<>>
        IN  [rpc |-> "get_network_info", try |-> FALSE, pass |-> "dumps",
         err |-> NoError,
         payload |-> payload0]
      [] m = "get_sync_status" ->
        LET payload0 == <<>>
        IN  [rpc |-> "get_sync_status", try |-> FALSE, pass |-> "dumps",
         err |-> NoError,
         payload |-> payload0]
      [] m = "get_timestamp_for_height" ->
        LET payload0 == <<<<"height", a.height>>>>
        IN  [rpc |-> "get_timestamp_for_height", try |-> FALSE, pass |-> "dumps",
         err |-> NoError,
         payload |-> payload0]
      [] m = "push_transactions" ->
        [rpc |-> "", try |-> FALSE, pass |-> "nosubmit",
         err |-> NoError,
         payload |-> <<>>]
      [] m = "push_transaction" ->
        LET payload0 == <<<<"transactions", a.transactions>>>>
        IN  [rpc |-> "push_tx", try |-> FALSE, pass |-> "dumps",
         err |-> NoError,
         payload |-> payload0]
      [] m = "set_wallet_resync_on_startup" ->
        LET payload0 == <<<<"enable", a.enable>>>>
        IN  [rpc |-> "set_wallet_resync_on_startup", try |-> FALSE, pass |-> "dumps",
         err |-> NoError,
         payload |-> payload0]

DataLayerWalletMethods ==
    {"create_new_dl", "dl_delete_mirror", "dl_get_mirrors",
     "dl_history"}

DataLayerWalletSignature(m) ==
    CASE m = "create_new_dl" ->
        <<<<"root", "str", Required>>, <<"fee", "int", Required>>>>
      [] m = "dl_delete_mirror" ->
        <<<<"coin_id", "str", Required>>, <<"fee", "int", Required>>>>
      [] m = "dl_get_mirrors" ->
        <<<<"launcher_id", "str", Required>>>>
      [] m = "dl_history" ->
        <<<<"launcher_id", "str", Required>>, <<"min_generation", "int", Required>>, <<"max_generation", "int", Required>>, <<"num_results", "int", Required>>>>

DataLayerWallet(m, a) ==
    CASE m = "create_new_dl" ->
        LET payload0 == <<<<"root", a.root>>, <<"fee", a.fee>>>>
        IN  [rpc |-> "create_new_dl", try |-> FALSE, pass |-> "dumps",
         err |-> NoError,
         payload |-> payload0]
      [] m = "dl_delete_mirror" ->
        LET payload0 == <<<<"coin_id", a.coin_id>>, <<"fee", a.fee>>>>
        IN  [rpc |-> "dl_delete_mirror", try |-> FALSE, pass |-> "dumps",
         err |-> NoError,
         payload |-> payload0]
      [] m = "dl_get_mirrors" ->
        LET payload0 == <<<<"launcher_id", a.launcher_id>>>>
        IN  [rpc |-> "dl_get_mirrors", try |-> FALSE, pass |-> "dumps",
         err |-> NoError,
         payload |-> payload0]
      [] m = "dl_history" ->
        LET payload0 == <<<<"launcher_id", a.launcher_id>>, <<"min_generation", a.min_generation>>, <<"max_generation", a.max_generation>>, <<"num_results", a.num_results>>>>
        IN  [rpc |-> "dl_history", try |-> FALSE, pass |-> "dumps",
         err |-> NoError,
         payload |-> payload0]

NFTWalletMethods ==
    {"nft_add_uri"}

NFTWalletSignature(m) ==
    CASE m = "nft_add_uri" ->
        <<<<"wallet_id", "int", Required>>, <<"uri", "str", Required>>, <<"key", "str", Required>>, <<"nft_coin_id", "str", Required>>, <<"fee", "int", Required>>, <<"reuse_puzhash", "bool", Required>>>>

NFTWallet(m, a) ==
    CASE m = "nft_add_uri" ->
        LET payload0 == <<<<"wallet_id", a.wallet_id>>, <<"uri", a.uri>>, <<"key", a.key>>, <<"nft_coin_id", a.nft_coin_id>>, <<"fee", a.fee>>, <<"reuse_puzhash", a.reuse_puzhash>>>>
        IN  [rpc |-> "nft_add_uri", try |-> FALSE, pass |-> "dumps",
         err |-> NoError,
         payload |-> payload0]

CoinsMethods ==
    {"get_coin_records_by_names"}

CoinsSignature(m) ==
    CASE m = "get_coin_records_by_names" ->
        <<<<"names", "list", Required>>, <<"start_height", "int", Required>>, <<"end_height", "int", Required>>, <<"include_spent_coins", "bool", Required>>>>

\* (mutant) the rpc name misspelt
Coins_misspelt(m, a) ==
    [rpc |-> "get_coin_record_by_name", try |-> FALSE, pass |-> "dumps",
     err |-> NoError,
     payload |-> <<<<"names", a.names>>, <<"start_height", a.start_height>>, <<"end_height", a.end_height>>, <<"include_spent_coins", a.include_spent_coins>>>>]

Coins(m, a) ==
    CASE m = "get_coin_records_by_names" ->
        LET payload0 == <<<<"names", a.names>>, <<"start_height", a.start_height>>, <<"end_height", a.end_height>>, <<"include_spent_coins", a.include_spent_coins>>>>
        IN  [rpc |-> "get_coin_records_by_names", try |-> FALSE, pass |-> "dumps",
         err |-> NoError,
         payload |-> payload0]

(***************************************************************************)
(* The earlier revision, ChiaRPC.py: the wrapper methods of its classes    *)
(* (SharedMethods, CatWallet, DidWallet, Wallet; the other classes have a  *)
(* constructor only).  Method names are unique over the file.              *)
(***************************************************************************)
ChiaRPC_Methods ==
    {<<"SharedMethods", "close_connection">>, <<"SharedMethods", "get_connections">>,
     <<"SharedMethods", "get_routes">>, <<"SharedMethods", "check_healthz">>,
     <<"SharedMethods", "open_connection">>, <<"SharedMethods", "stop_node">>,
     <<"CatWallet", "cancel_offers">>, <<"CatWallet", "cat_asset_id_to_name">>,
     <<"CatWallet", "cancel_offer">>, <<"CatWallet", "cat_get_asset_id">>,
     <<"CatWallet", "cat_get_name">>, <<"CatWallet", "cat_set_name">>,
     <<"CatWallet", "cat_spend">>, <<"CatWallet", "check_offer_validity">>,
     <<"CatWallet", "create_offer_for_ids">>, <<"CatWallet", "get_all_offers">>,
     <<"CatWallet", "get_offer">>, <<"CatWallet", "get_offer_summary">>,
     <<"CatWallet", "get_offers_count">>, <<"CatWallet", "get_stray_cats">>,
     <<"CatWallet", "select_coins">>, <<"CatWallet", "take_offer">>,
     <<"DidWallet", "did_create_attest">>, <<"DidWallet", "did_create_backup_file">>,
     <<"DidWallet", "did_find_lost_did">>, <<"DidWallet", "did_get_current_coin_info">>,
     <<"DidWallet", "did_get_did">>, <<"DidWallet", "did_get_info">>,
     <<"DidWallet", "did_get_information_needed_for_recovery">>, <<"DidWallet", "did_get_metadata">>,
     <<"DidWallet", "did_get_pubkey">>, <<"DidWallet", "did_get_recovery_list">>,
     <<"DidWallet", "did_get_wallet_name">>, <<"DidWallet", "did_message_spend">>,
     <<"DidWallet", "did_recovery_spend">>, <<"DidWallet", "did_set_wallet_name">>,
     <<"DidWallet", "did_transfer_did">>, <<"DidWallet", "did_update_metadata">>,
     <<"DidWallet", "did_update_recovery_ids">>, <<"Wallet", "create_signed_transaction">>,
     <<"Wallet", "delete_unconfirmed_transactions">>, <<"Wallet", "extend_derivation_index">>,
     <<"Wallet", "get_current_derivation_index">>, <<"Wallet", "get_farmed_amount">>,
     <<"Wallet", "get_next_address">>, <<"Wallet", "get_spendable_coins">>,
     <<"Wallet", "get_transaction">>, <<"Wallet", "get_wallet_transaction_count">>,
     <<"Wallet", "get_transaction_memo">>, <<"Wallet", "get_transactions">>,
     <<"Wallet", "get_wallet_balance">>, <<"Wallet", "send_transaction">>,
     <<"Wallet", "send_transaction_multi">>}

ChiaRPC_Signature(m) ==
    CASE m = "close_connection" ->
        <<<<"node_id", "str", Required>>>>
      [] m = "get_connections" ->
        <<>>
      [] m = "get_routes" ->
        <<>>
      [] m = "check_healthz" ->
        <<>>
      [] m = "open_connection" ->
        <<<<"ip", "str", Required>>, <<"port", "int", Required>>>>
      [] m = "stop_node" ->
        <<>>
      [] m = "cancel_offers" ->
        <<<<"batch_fee", "int", "0">>, <<"secure", "bool", "True">>, <<"batch_size", "int", "5">>, <<"cancel_all", "bool", "False">>, <<"asset_id", "str", "'xch'">>>>
      [] m = "cat_asset_id_to_name" ->
        <<<<"asset_id", "str", Required>>>>
      [] m = "cancel_offer" ->
        <<<<"offer_id", "str", Required>>>>
      [] m = "cat_get_asset_id" ->
        <<<<"wallet_id", "str", Required>>>>
      [] m = "cat_get_name" ->
        <<<<"wallet_id", "str", Required>>>>
      [] m = "cat_set_name" ->
        <<<<"wallet_id", "int", Required>>, <<"name", "str", Required>>>>
      [] m = "cat_spend" ->
        <<<<"wallet_id", "int", Required>>, <<"coins", "list", Required>>, <<"amount", "int", Required>>, <<"fee", "int", Required>>, <<"inner_address", "str", Required>>, <<"memos", "list", Required>>, <<"min_coin_amount", "int", Required>>, <<"max_coin_amount", "int", Required>>, <<"exclude_coin_amounts", "list", Required>>, <<"exclude_coin_ids", "list", Required>>, <<"reuse_puzhash", "bool", Required>>>>
      [] m = "check_offer_validity" ->
        <<<<"offer", "str", Required>>>>
      [] m = "create_offer_for_ids" ->
        <<<<"offer", "dict", Required>>, <<"fee", "int", Required>>, <<"validate_only", "bool", Required>>, <<"driver_dict", "dict", Required>>, <<"min_coin_amount", "int", Required>>, <<"max_coin_amount", "int", Required>>, <<"solver", "dict", Required>>, <<"reuse_puzhash", "bool", Required>>>>
      [] m = "get_all_offers" ->
        <<<<"start", "int", Required>>, <<"end", "int", Required>>, <<"exclude_my_offers", "bool", Required>>, <<"exclude_taken_offers", "bool", Required>>, <<"include_completed", "bool", Required>>, <<"sort_key", "str", Required>>, <<"reverse", "bool", Required>>, <<"file_contents", "bool", Required>>>>
      [] m = "get_offer" ->
        <<<<"trade_id", "str", Required>>, <<"file_contents", "bool", "True">>>>
      [] m = "get_offer_summary" ->
        <<<<"offer", "str", Required>>, <<"advanced", "bool", "False">>>>
      [] m = "get_offers_count" ->
        <<>>
      [] m = "get_stray_cats" ->
        <<>>
      [] m = "select_coins" ->
        <<<<"wallet_id", "int", Required>>, <<"amount", "int", Required>>, <<"min_coin_amount", "int", Required>>, <<"excluded_coins", "list", None>>, <<"max_coin_amount", "int", None>>, <<"exclude_coin_amounts", "list", None>>>>
      [] m = "take_offer" ->
        <<<<"offer", "str", Required>>, <<"fee", "int", Required>>, <<"min_coin_amount", "int", Required>>, <<"max_coin_amount", "int", None>>, <<"solver", "dict", None>>, <<"reuse_puzhash", "bool", "True">>>>
      [] m = "did_create_attest" ->
        <<<<"wallet_id", "int", Required>>, <<"coin_name", "str", Required>>, <<"pubkey", "str", Required>>, <<"puzhash", "str", Required>>>>
      [] m = "did_create_backup_file" ->
        <<<<"wallet_id", "int", Required>>>>
      [] m = "did_find_lost_did" ->
        <<<<"coin_id", "str", Required>>>>
      [] m = "did_get_current_coin_info" ->
        <<<<"wallet_id", "int", Required>>>>
      [] m = "did_get_did" ->
        <<<<"wallet_id", "int", Required>>>>
      [] m = "did_get_info" ->
        <<<<"coin_id", "str", Required>>, <<"latest", "bool", "True">>>>
      [] m = "did_get_information_needed_for_recovery" ->
        <<<<"wallet_id", "int", Required>>>>
      [] m = "did_get_metadata" ->
        <<<<"wallet_id", "int", Required>>>>
      [] m = "did_get_pubkey" ->
        <<<<"wallet_id", "int", Required>>>>
      [] m = "did_get_recovery_list" ->
        <<<<"wallet_id", "int", Required>>>>
      [] m = "did_get_wallet_name" ->
        <<<<"wallet_id", "int", Required>>>>
      [] m = "did_message_spend" ->
        <<<<"wallet_id", "int", Required>>, <<"coin_announcements", "list", Required>>, <<"puzzle_announcements", "list", Required>>>>
      [] m = "did_recovery_spend" ->
        <<<<"wallet_id", "int", Required>>, <<"attest_data", "list", Required>>, <<"pubkey", "str", Required>>, <<"puzhash", "str", Required>>>>
      [] m = "did_set_wallet_name" ->
        <<<<"wallet_id", "int", Required>>, <<"name", "str", Required>>>>
      [] m = "did_transfer_did" ->
        <<<<"wallet_id", "int", Required>>, <<"inner_address", "str", Required>>, <<"fee", "int", Required>>, <<"with_recovery_info", "bool", Required>>, <<"reuse_puzhash", "bool", Required>>>>
      [] m = "did_update_metadata" ->
        <<<<"wallet_id", "int", Required>>, <<"metadata", "dict", Required>>, <<"fee", "int", "0">>, <<"reuse_puzhash", "bool", "True">>>>
      [] m = "did_update_recovery_ids" ->
        <<<<"wallet_id", "int", Required>>, <<"new_list", "list", Required>>, <<"num_verifications_required", "int", "0">>, <<"reuse_puzhash", "bool", "True">>>>
      [] m = "create_signed_transaction" ->
        <<<<"wallet_id", "int", Required>>, <<"additions", "list", Required>>, <<"fee", "int", Required>>, <<"coins", "list", Required>>, <<"coin_announcements", "list", None>>, <<"puzzle_announcements", "list", None>>, <<"min_coin_amount", "int", "0">>, <<"max_coin_amount", "int", "0">>, <<"excluded_coins", "list", None>>, <<"excluded_coin_amounts", "list", None>>>>
      [] m = "delete_unconfirmed_transactions" ->
        <<<<"wallet_id", "int", Required>>>>
      [] m = "extend_derivation_index" ->
        <<<<"index", "int", Required>>>>
      [] m = "get_current_derivation_index" ->
        <<>>
      [] m = "get_farmed_amount" ->
        <<>>
      [] m = "get_next_address" ->
        <<<<"wallet_id", "int", Required>>, <<"new_address", "bool", "True">>>>
      [] m = "get_spendable_coins" ->
        <<<<"wallet_id", "int", Required>>, <<"min_coin_amount", "int", "0">>, <<"max_coin_amount", "int", "0">>, <<"excluded_coin_amounts", "list", None>>, <<"excluded_coins", "list", None>>, <<"excluded_coin_ids", "list", None>>>>
      [] m = "get_transaction" ->
        <<<<"transaction_id", "str", Required>>>>
      [] m = "get_wallet_transaction_count" ->
        <<<<"wallet_id", "int", Required>>>>
      [] m = "get_transaction_memo" ->
        <<<<"transaction_id", "str", Required>>>>
      [] m = "get_transactions" ->
        <<<<"wallet_id", "int", Required>>, <<"start", "int", Required>>, <<"end", "int", Required>>, <<"sort_key", "str", Required>>, <<"reverse", "bool", Required>>>>
      [] m = "get_wallet_balance" ->
        <<<<"wallet_id", "int", Required>>>>
      [] m = "send_transaction" ->
        <<<<"wallet_id", "int", Required>>, <<"amount", "int", Required>>, <<"address", "str", Required>>, <<"fee", "int", Required>>, <<"memos", "list", None>>, <<"min_coin_amount", "int", "0">>, <<"max_coin_amount", "int", "0">>, <<"exclude_coin_amounts", "list", None>>, <<"exclude_coin_ids", "list", None>>, <<"reuse_puzhash", "bool", "True">>>>
      [] m = "send_transaction_multi" ->
        <<<<"wallet_id", "int", Required>>, <<"additions", "list", Required>>, <<"fee", "int", Required>>, <<"coins", "list", Required>>, <<"coin_announcements", "str", None>>, <<"puzzle_announcements", "str", None>>>>

ChiaRPC_Method(m, a) ==
    CASE m = "close_connection" ->
        LET payload0 == <<<<"node_id", a.node_id>>>>
        IN  [rpc |-> "close_connection", try |-> FALSE, pass |-> "dumps",
         err |-> NoError,
         payload |-> payload0]
      [] m = "get_connections" ->
        LET payload0 == <<>>
        IN  [rpc |-> "get_connections", try |-> FALSE, pass |-> "dumps",
         err |-> NoError,
         payload |-> payload0]
      [] m = "get_routes" ->
        LET payload0 == <<>>
        IN  [rpc |-> "get_routes", try |-> FALSE, pass |-> "dumps",
         err |-> NoError,
         payload |-> payload0]
      [] m = "check_healthz" ->
        LET payload0 == <<>>
        IN  [rpc |-> "healthz", try |-> FALSE, pass |-> "dumps",
         err |-> NoError,
         payload |-> payload0]
      [] m = "open_connection" ->
        LET payload0 == <<<<"ip", a.ip>>, <<"port", a.port>>>>
        IN  [rpc |-> "open_connection", try |-> FALSE, pass |-> "dumps",
         err |-> NoError,
         payload |-> payload0]
      [] m = "stop_node" ->
        LET payload0 == <<>>
        IN  [rpc |-> "stop_node", try |-> FALSE, pass |-> "dumps",
         err |-> NoError,
         payload |-> payload0]
      [] m = "cancel_offers" ->
        LET data0 == <<<<"batch_fee", a.batch_fee>>, <<"secure", a.secure>>, <<"batch_size", a.batch_size>>, <<"cancel_all", a.cancel_all>>, <<"asset_id", lower(a.asset_id)>>>>
        IN  [rpc |-> "cancel_offers", try |-> FALSE, pass |-> "dumps",
         err |-> lower_error(a.asset_id),
         payload |-> data0]
      [] m = "cat_asset_id_to_name" ->
        LET data0 == <<<<"asset_id", a.asset_id>>>>
        IN  [rpc |-> "cat_asset_id_to_name", try |-> FALSE, pass |-> "dumps",
         err |-> NoError,
         payload |-> data0]
      [] m = "cancel_offer" ->
        LET data0 == <<<<"offer_id", a.offer_id>>>>
        IN  [rpc |-> "cancel_offer", try |-> FALSE, pass |-> "dumps",
         err |-> NoError,
         payload |-> data0]
      [] m = "cat_get_asset_id" ->
        LET data0 == <<<<"wallet_id", a.wallet_id>>>>
        IN  [rpc |-> "cat_get_asset_id", try |-> FALSE, pass |-> "dumps",
         err |-> NoError,
         payload |-> data0]
      [] m = "cat_get_name" ->
        LET data0 == <<<<"wallet_id", a.wallet_id>>>>
        IN  [rpc |-> "cat_get_name", try |-> FALSE, pass |-> "dumps",
         err |-> NoError,
         payload |-> data0]
      [] m = "cat_set_name" ->
        LET data0 == <<<<"wallet_id", a.wallet_id>>, <<"name", a.name>>>>
        IN  [rpc |-> "cat_set_name", try |-> FALSE, pass |-> "dumps",
         err |-> NoError,
         payload |-> data0]
      [] m = "cat_spend" ->
        LET data0 == <<<<"wallet_id", a.wallet_id>>, <<"coins", a.coins>>, <<"amount", a.amount>>, <<"fee", a.fee>>, <<"inner_address", a.inner_address>>, <<"memos", a.memos>>, <<"min_coin_amount", a.min_coin_amount>>, <<"max_coin_amount", a.max_coin_amount>>, <<"exclude_coin_amounts", a.exclude_coin_amounts>>, <<"exclude_coin_ids", a.exclude_coin_ids>>, <<"reuse_puzhash", a.reuse_puzhash>>>>
        IN  [rpc |-> "cat_spend", try |-> FALSE, pass |-> "dumps",
         err |-> NoError,
         payload |-> data0]
      [] m = "check_offer_validity" ->
        LET data0 == <<<<"offer", a.offer>>>>
        IN  [rpc |-> "check_offer_validity", try |-> FALSE, pass |-> "dumps",
         err |-> NoError,
         payload |-> data0]
      [] m = "create_offer_for_ids" ->
        LET data0 == <<<<"offer", a.offer>>, <<"fee", a.fee>>, <<"validate_only", a.validate_only>>, <<"driver_dict", a.driver_dict>>, <<"min_coin_amount", a.min_coin_amount>>, <<"max_coin_amount", a.max_coin_amount>>, <<"solver", a.solver>>, <<"reuse_puzhash", a.reuse_puzhash>>>>
        IN  [rpc |-> "create_offer_for_ids", try |-> FALSE, pass |-> "dumps",
         err |-> NoError,
         payload |-> data0]
      [] m = "get_all_offers" ->
        LET data0 == <<<<"start", a.start>>, <<"end", a.end>>, <<"exclude_my_offers", a.exclude_my_offers>>, <<"exclude_taken_offers", a.exclude_taken_offers>>, <<"include_completed", a.include_completed>>, <<"sort_key", a.sort_key>>, <<"reverse", a.reverse>>, <<"file_contents", a.file_contents>>>>
        IN  [rpc |-> "get_all_offers", try |-> FALSE, pass |-> "dumps",
         err |-> NoError,
         payload |-> data0]
      [] m = "get_offer" ->
        LET data0 == <<<<"trade_id", a.trade_id>>, <<"file_contents", a.file_contents>>>>
        IN  [rpc |-> "get_offer", try |-> FALSE, pass |-> "dumps",
         err |-> NoError,
         payload |-> data0]
      [] m = "get_offer_summary" ->
        LET data0 == <<<<"offer", a.offer>>, <<"advanced", a.advanced>>>>
        IN  [rpc |-> "get_offer_summary", try |-> FALSE, pass |-> "dumps",
         err |-> NoError,
         payload |-> data0]
      [] m = "get_offers_count" ->
        LET data0 == <<>>
        IN  [rpc |-> "get_offers_count", try |-> FALSE, pass |-> "dumps",
         err |-> NoError,
         payload |-> data0]
      [] m = "get_stray_cats" ->
        LET data0 == <<>>
        IN  [rpc |-> "get_stray_cats", try |-> FALSE, pass |-> "dumps",
         err |-> NoError,
         payload |-> data0]
      [] m = "select_coins" ->
        LET data0 == <<<<"wallet_id", a.wallet_id>>, <<"amount", a.amount>>, <<"min_coin_amount", a.min_coin_amount>>, <<"excluded_coins", a.excluded_coins>>, <<"max_coin_amount", a.max_coin_amount>>, <<"exclude_coin_amounts", a.exclude_coin_amounts>>>>
        IN  [rpc |-> "select_coins", try |-> FALSE, pass |-> "dumps",
         err |-> NoError,
         payload |-> data0]
      [] m = "take_offer" ->
        LET data0 == <<<<"offer", a.offer>>, <<"fee", a.fee>>, <<"min_coin_amount", a.min_coin_amount>>, <<"max_coin_amount", a.max_coin_amount>>, <<"solver", a.solver>>, <<"reuse_puzhash", a.reuse_puzhash>>>>
        IN  [rpc |-> "take_offer", try |-> FALSE, pass |-> "dumps",
         err |-> NoError,
         payload |-> data0]
      [] m = "did_create_attest" ->
        LET payload0 == <<<<"wallet_id", a.wallet_id>>, <<"coin_name", a.coin_name>>, <<"pubkey", a.pubkey>>, <<"puzhash", a.puzhash>>>>
        IN  [rpc |-> "did_create_attest", try |-> FALSE, pass |-> "dumps",
         err |-> NoError,
         payload |-> payload0]
      [] m = "did_create_backup_file" ->
        LET payload0 == <<<<"wallet_id", a.wallet_id>>>>
        IN  [rpc |-> "did_create_backup_file", try |-> FALSE, pass |-> "dumps",
         err |-> NoError,
         payload |-> payload0]
      [] m = "did_find_lost_did" ->
        LET payload0 == <<<<"coin_id", a.coin_id>>>>
        IN  [rpc |-> "did_find_lost_did", try |-> FALSE, pass |-> "dumps",
         err |-> NoError,
         payload |-> payload0]
      [] m = "did_get_current_coin_info" ->
        LET payload0 == <<<<"wallet_id", a.wallet_id>>>>
        IN  [rpc |-> "did_get_current_coin_info", try |-> FALSE, pass |-> "dumps",
         err |-> NoError,
         payload |-> payload0]
      [] m = "did_get_did" ->
        LET payload0 == <<<<"wallet_id", a.wallet_id>>>>
        IN  [rpc |-> "did_get_did", try |-> FALSE, pass |-> "dumps",
         err |-> NoError,
         payload |-> payload0]
      [] m = "did_get_info" ->
        LET payload0 == <<<<"coin_id", a.coin_id>>, <<"latest", a.latest>>>>
        IN  [rpc |-> "did_get_info", try |-> FALSE, pass |-> "dumps",
         err |-> NoError,
         payload |-> payload0]
      [] m = "did_get_information_needed_for_recovery" ->
        LET payload0 == <<<<"wallet_id", a.wallet_id>>>>
        IN  [rpc |-> "did_get_information_needed_for_recovery", try |-> FALSE, pass |-> "dumps",
         err |-> NoError,
         payload |-> payload0]
      [] m = "did_get_metadata" ->
        LET payload0 == <<<<"wallet_id", a.wallet_id>>>>
        IN  [rpc |-> "did_get_metadata", try |-> FALSE, pass |-> "dumps",
         err |-> NoError,
         payload |-> payload0]
      [] m = "did_get_pubkey" ->
        LET payload0 == <<<<"wallet_id", a.wallet_id>>>>
        IN  [rpc |-> "did_get_pubkey", try |-> FALSE, pass |-> "dumps",
         err |-> NoError,
         payload |-> payload0]
      [] m = "did_get_recovery_list" ->
        LET payload0 == <<<<"wallet_id", a.wallet_id>>>>
        IN  [rpc |-> "did_get_recovery_list", try |-> FALSE, pass |-> "dumps",
         err |-> NoError,
         payload |-> payload0]
      [] m = "did_get_wallet_name" ->
        LET payload0 == <<<<"wallet_id", a.wallet_id>>>>
        IN  [rpc |-> "did_get_wallet_name", try |-> FALSE, pass |-> "dumps",
         err |-> NoError,
         payload |-> payload0]
      [] m = "did_message_spend" ->
        LET payload0 == <<<<"wallet_id", a.wallet_id>>, <<"coin_announcements", a.coin_announcements>>, <<"puzzle_announcements", a.puzzle_announcements>>>>
        IN  [rpc |-> "did_message_spend", try |-> FALSE, pass |-> "dumps",
         err |-> NoError,
         payload |-> payload0]
      [] m = "did_recovery_spend" ->
        LET payload0 == <<<<"wallet_id", a.wallet_id>>, <<"attest_data", a.attest_data>>, <<"pubkey", a.pubkey>>, <<"puzhash", a.puzhash>>>>
        IN  [rpc |-> "did_recovery_spend", try |-> FALSE, pass |-> "dumps",
         err |-> NoError,
         payload |-> payload0]
      [] m = "did_set_wallet_name" ->
        LET payload0 == <<<<"wallet_id", a.wallet_id>>, <<"name", a.name>>>>
        IN  [rpc |-> "did_set_wallet_name", try |-> FALSE, pass |-> "dumps",
         err |-> NoError,
         payload |-> payload0]
      [] m = "did_transfer_did" ->
        LET payload0 == <<<<"wallet_id", a.wallet_id>>, <<"inner_address", a.inner_address>>, <<"fee", a.fee>>, <<"with_recovery_info", a.with_recovery_info>>, <<"reuse_puzhash", a.reuse_puzhash>>>>
        IN  [rpc |-> "did_transfer_did", try |-> FALSE, pass |-> "dumps",
         err |-> NoError,
         payload |-> payload0]
      [] m = "did_update_metadata" ->
        LET payload0 == <<<<"wallet_id", a.wallet_id>>, <<"metadata", a.metadata>>, <<"fee", a.fee>>, <<"reuse_puzhash", a.reuse_puzhash>>>>
        IN  [rpc |-> "did_update_metadata", try |-> FALSE, pass |-> "dumps",
         err |-> NoError,
         payload |-> payload0]
      [] m = "did_update_recovery_ids" ->
        LET payload0 == <<<<"wallet_id", a.wallet_id>>, <<"new_list", a.new_list>>, <<"num_verifications_required", a.num_verifications_required>>, <<"reuse_puzhash", a.reuse_puzhash>>>>
        IN  [rpc |-> "did_update_recovery_ids", try |-> FALSE, pass |-> "dumps",
         err |-> NoError,
         payload |-> payload0]
      [] m = "create_signed_transaction" ->
        LET payload0 == <<<<"wallet_id", a.wallet_id>>, <<"additions", a.additions>>, <<"fee", a.fee>>, <<"coins", a.coins>>, <<"coin_announcements", a.coin_announcements>>, <<"puzzle_announcements", a.puzzle_announcements>>, <<"min_coin_amount", a.min_coin_amount>>, <<"max_coin_amount", a.max_coin_amount>>, <<"excluded_coins", a.excluded_coins>>, <<"excluded_coin_amounts", a.excluded_coin_amounts>>>>
        IN  [rpc |-> "create_signed_transaction", try |-> FALSE, pass |-> "dumps",
         err |-> NoError,
         payload |-> payload0]
      [] m = "delete_unconfirmed_transactions" ->
        LET payload0 == <<<<"wallet_id", a.wallet_id>>>>
        IN  [rpc |-> "delete_unconfirmed_transactions", try |-> FALSE, pass |-> "dumps",
         err |-> NoError,
         payload |-> payload0]
      [] m = "extend_derivation_index" ->
        LET payload0 == <<<<"index", a.index>>>>
        IN  [rpc |-> "extend_derivation_index", try |-> FALSE, pass |-> "dumps",
         err |-> NoError,
         payload |-> payload0]
      [] m = "get_current_derivation_index" ->
        [rpc |-> "get_current_derivation_index", try |-> FALSE, pass |-> "dumps",
         err |-> NoError,
         payload |-> <<>>]
      [] m = "get_farmed_amount" ->
        [rpc |-> "get_farmed_amount", try |-> FALSE, pass |-> "dumps",
         err |-> NoError,
         payload |-> <<>>]
      [] m = "get_next_address" ->
        LET payload0 == <<<<"wallet_id", a.wallet_id>>, <<"new_address", a.new_address>>>>
        IN  [rpc |-> "get_next_address", try |-> FALSE, pass |-> "dumps",
         err |-> NoError,
         payload |-> payload0]
      [] m = "get_spendable_coins" ->
        LET payload0 == <<<<"wallet_id", a.wallet_id>>, <<"min_coin_amount", a.min_coin_amount>>, <<"max_coin_amount", a.max_coin_amount>>, <<"excluded_coin_amounts", Or(a.excluded_coin_amounts, "[]")>>, <<"excluded_coins", Or(a.excluded_coins, "[]")>>, <<"excluded_coin_ids", Or(a.excluded_coin_ids, "[]")>>>>
        IN  [rpc |-> "get_spendable_coins", try |-> FALSE, pass |-> "dumps",
         err |-> NoError,
         payload |-> payload0]
      [] m = "get_transaction" ->
        LET payload0 == <<<<"transaction_id", a.transaction_id>>>>
        IN  [rpc |-> "get_transaction", try |-> FALSE, pass |-> "dumps",
         err |-> NoError,
         payload |-> payload0]
      [] m = "get_wallet_transaction_count" ->
        LET payload0 == <<<<"wallet_id", a.wallet_id>>>>
        IN  [rpc |-> "get_transaction_count", try |-> FALSE, pass |-> "dumps",
         err |-> NoError,
         payload |-> payload0]
      [] m = "get_transaction_memo" ->
        LET payload0 == <<<<"transaction_id", a.transaction_id>>>>
        IN  [rpc |-> "get_transaction_memo", try |-> FALSE, pass |-> "dumps",
         err |-> NoError,
         payload |-> payload0]
      [] m = "get_transactions" ->
        LET payload0 == <<<<"wallet_id", a.wallet_id>>, <<"start", a.start>>, <<"end", a.end>>, <<"sort_key", a.sort_key>>, <<"reverse", a.reverse>>>>
        IN  [rpc |-> "get_transactions", try |-> FALSE, pass |-> "dumps",
         err |-> NoError,
         payload |-> payload0]
      [] m = "get_wallet_balance" ->
        LET payload0 == <<<<"wallet_id", a.wallet_id>>>>
        IN  [rpc |-> "get_wallet_balance", try |-> FALSE, pass |-> "dumps",
         err |-> NoError,
         payload |-> payload0]
      [] m = "send_transaction" ->
        LET payload0 == <<<<"wallet_id", a.wallet_id>>, <<"amount", a.amount>>, <<"address", a.address>>, <<"fee", a.fee>>, <<"memos", a.memos>>, <<"min_coin_amount", a.min_coin_amount>>, <<"max_coin_amount", a.max_coin_amount>>, <<"exclude_coin_amounts", a.exclude_coin_amounts>>, <<"exclude_coin_ids", a.exclude_coin_ids>>, <<"reuse_puzhash", a.reuse_puzhash>>>>
        IN  [rpc |-> "send_transaction", try |-> FALSE, pass |-> "dumps",
         err |-> NoError,
         payload |-> payload0]
      [] m = "send_transaction_multi" ->
        LET payload0 == <<<<"wallet_id", a.wallet_id>>, <<"additions", a.additions>>, <<"fee", a.fee>>, <<"coins", a.coins>>, <<"coin_announcements", a.coin_announcements>>, <<"puzzle_announcements", a.puzzle_announcements>>>>
        IN  [rpc |-> "send_transaction_multi", try |-> FALSE, pass |-> "dumps",
         err |-> NoError,
         payload |-> payload0]


(***************************************************************************)
(* Calling a wrapper method.                                               *)
(***************************************************************************)
Classes ==
    {"SharedMethods", "CatWallet", "DidWallet", "KeyManagement", "PoolWallet",
     "Notifications", "Wallet", "WalletManagement", "WalletNode", "DataLayerWallet",
     "NFTWallet", "Coins"}

MethodsOf(cls) ==
    CASE cls = "SharedMethods" -> SharedMethodsMethods
      [] cls = "CatWallet" -> CatWalletMethods
      [] cls = "DidWallet" -> DidWalletMethods
      [] cls = "KeyManagement" -> KeyManagementMethods
      [] cls = "PoolWallet" -> PoolWalletMethods
      [] cls = "Notifications" -> NotificationsMethods
      [] cls = "Wallet" -> WalletMethods
      [] cls = "WalletManagement" -> WalletManagementMethods
      [] cls = "WalletNode" -> WalletNodeMethods
      [] cls = "DataLayerWallet" -> DataLayerWalletMethods
      [] cls = "NFTWallet" -> NFTWalletMethods
      [] cls = "Coins" -> CoinsMethods

\* the parameters of cls.m after self: <<name, type, default>>
Signature(cls, m) ==
    CASE cls = "SharedMethods" -> SharedMethodsSignature(m)
      [] cls = "CatWallet" -> CatWalletSignature(m)
      [] cls = "DidWallet" -> DidWalletSignature(m)
      [] cls = "KeyManagement" -> KeyManagementSignature(m)
      [] cls = "PoolWallet" -> PoolWalletSignature(m)
      [] cls = "Notifications" -> NotificationsSignature(m)
      [] cls = "Wallet" -> WalletSignature(m)
      [] cls = "WalletManagement" -> WalletManagementSignature(m)
      [] cls = "WalletNode" -> WalletNodeSignature(m)
      [] cls = "DataLayerWallet" -> DataLayerWalletSignature(m)
      [] cls = "NFTWallet" -> NFTWalletSignature(m)
      [] cls = "Coins" -> CoinsSignature(m)

\* del d[k]
DelItem(d, k) == SelectSeq(d, LAMBDA item : item[1] # k)

\* (mutant) send_transaction written with "if fee:" and "if memos:"
Method_send_transaction_if_truthy(cls, m, a) ==
    LET d == CASE cls = "SharedMethods" -> SharedMethods(m, a)
               [] cls = "CatWallet" -> CatWallet(m, a)
               [] cls = "DidWallet" -> DidWallet(m, a)
               [] cls = "KeyManagement" -> KeyManagement(m, a)
               [] cls = "PoolWallet" -> PoolWallet(m, a)
               [] cls = "Notifications" -> Notifications(m, a)
               [] cls = "Wallet" -> Wallet(m, a)
               [] cls = "WalletManagement" -> WalletManagement(m, a)
               [] cls = "WalletNode" -> WalletNode(m, a)
               [] cls = "DataLayerWallet" -> DataLayerWallet(m, a)
               [] cls = "NFTWallet" -> NFTWallet(m, a)
               [] cls = "Coins" -> Coins(m, a)
    IN  IF cls = "Wallet" /\ m = "send_transaction"
        THEN [d EXCEPT !.payload =
                 LET p1 == IF Truthy(a.fee) THEN d.payload ELSE DelItem(d.payload, "fee")
                 IN  IF Truthy(a.memos) THEN p1 ELSE DelItem(p1, "memos")]
        ELSE d

\* (mutant) get_all_offers written with "if value:" in its loop
Method_get_all_offers_if_value(cls, m, a) ==
    LET d == CASE cls = "SharedMethods" -> SharedMethods(m, a)
               [] cls = "CatWallet" -> CatWallet(m, a)
               [] cls = "DidWallet" -> DidWallet(m, a)
               [] cls = "KeyManagement" -> KeyManagement(m, a)
               [] cls = "PoolWallet" -> PoolWallet(m, a)
               [] cls = "Notifications" -> Notifications(m, a)
               [] cls = "Wallet" -> Wallet(m, a)
               [] cls = "WalletManagement" -> WalletManagement(m, a)
               [] cls = "WalletNode" -> WalletNode(m, a)
               [] cls = "DataLayerWallet" -> DataLayerWallet(m, a)
               [] cls = "NFTWallet" -> NFTWallet(m, a)
               [] cls = "Coins" -> Coins(m, a)
    IN  IF cls = "CatWallet" /\ m = "get_all_offers"
        THEN [d EXCEPT !.payload = SelectSeq(d.payload, LAMBDA item : Truthy(item[2]))]
        ELSE d

\* the body of cls.m with its parameters bound as a
Method(cls, m, a) ==
    CASE cls = "SharedMethods" -> SharedMethods(m, a)
      [] cls = "CatWallet" -> CatWallet(m, a)
      [] cls = "DidWallet" -> DidWallet(m, a)
      [] cls = "KeyManagement" -> KeyManagement(m, a)
      [] cls = "PoolWallet" -> PoolWallet(m, a)
      [] cls = "Notifications" -> Notifications(m, a)
      [] cls = "Wallet" -> Wallet(m, a)
      [] cls = "WalletManagement" -> WalletManagement(m, a)
      [] cls = "WalletNode" -> WalletNode(m, a)
      [] cls = "DataLayerWallet" -> DataLayerWallet(m, a)
      [] cls = "NFTWallet" -> NFTWallet(m, a)
      [] cls = "Coins" -> Coins(m, a)

\* The values a caller passes: for a required parameter one value of its type, for
\* an optional parameter it supplies any value of its type or None.
RequiredValue(type) ==
    CASE type = "int" -> "1"
      [] type = "bool" -> "True"
      [] type = "str" -> PyStr("xch")
      [] type = "list" -> "['a']"
      [] type = "dict" -> "{'a': 1}"

Choices(type) ==
    CASE type = "int" -> {"0", "1", None}
      [] type = "bool" -> {"False", "True", None}
      [] type = "str" -> {PyStr("xch"), PyStr("XCH"), None}
      [] type = "list" -> {"[]", "['a']", None}
      [] type = "dict" -> {"{}", "{'a': 1}", None}

AllChoices == UNION {Choices(t) : t \in {"int", "bool", "str", "list", "dict"}}

ParamNames(sig) == {sig[i][1] : i \in 1..Len(sig)}
RequiredNames(sig) == {sig[i][1] : i \in {j \in 1..Len(sig) : sig[j][3] = Required}}
OptionalNames(sig) == ParamNames(sig) \ RequiredNames(sig)
Param(sig, p) == sig[CHOOSE i \in 1..Len(sig) : sig[i][1] = p]

\* The keyword arguments of one call, a set of <<name, value>>: the caller supplies
\* at most MaxSupplied optional parameters, adjacent in the signature.
Windows(sig) ==
    {{sig[i][1] : i \in lo..hi} :
        lo \in 1..(Len(sig) + 1), hi \in 0..Len(sig)} 

Kwargs(sig) ==
    UNION {
        {{<<p, f[p]>> : p \in S} :
            f \in {g \in [S -> AllChoices] : \A p \in S : g[p] \in Choices(Param(sig, p)[2])}}
        : S \in {T \in Windows(sig) : T \subseteq OptionalNames(sig) /\ Cardinality(T) <= MaxSupplied}}

SuppliedNames(kw) == {pr[1] : pr \in kw}

\* Python's binding of the parameters: the supplied value, else the default
Bind(sig, kw) ==
    [p \in ParamNames(sig) |->
        IF p \in SuppliedNames(kw) THEN (CHOOSE pr \in kw : pr[1] = p)[2]
        ELSE IF Param(sig, p)[3] = Required THEN RequiredValue(Param(sig, p)[2])
        ELSE Param(sig, p)[3]]

\* How an invocation ends.
Return(d) == [kind |-> "return", value |-> d, exc |-> NoError]
ReturnStr(text) == [kind |-> "return_str", value |-> text.members, exc |-> NoError]
ReturnNone == [kind |-> "return_none", value |-> <<>>, exc |-> NoError]
Raise(msg) == [kind |-> "raise", value |-> <<>>, exc |-> msg]
NoResult == [kind |-> "", value |-> <<>>, exc |-> NoError]

\* (mutant) the handler marks the dictionary as made by the client
ErrorDict_marks_client(msg) == << <<"error", PyStr(msg)>>, <<"client_side", "True">> >>

\* {"error": str(e)}
ErrorDict(msg) == << <<"error", PyStr(msg)>> >>

\* (mutant) the handler lets the exception go on to the caller
Except_reraise(d, msg) == Raise(msg)

\* (mutant) every method catches the exception and answers with an error dictionary
Except_swallow(d, msg) == Return(ErrorDict(msg))

\* An exception with message msg inside the method body: a method written with
\* try/except returns the error dictionary, the others let it propagate.
Except(d, msg) ==
    IF d.try THEN Return(ErrorDict(msg)) ELSE Raise(msg)

\* the second argument the method hands to submit
SubmitData(d) ==
    CASE d.pass = "dumps" -> StrData(json_dumps(d.payload, 0, FALSE))
      [] d.pass = "literal" -> StrData([indent |-> 0, members |-> <<>>])
      [] d.pass = "raw" -> DictData(d.payload)

\* Running the method body d on the connection conn while the network does net.
Run(d, conn, net) ==
    IF d.pass = "nosubmit"
    THEN [sent |-> 0, req |-> NoReq, result |-> ReturnNone]
    ELSE IF d.err # NoError
    THEN [sent |-> 0, req |-> NoReq, result |-> Except(d, d.err)]
    ELSE LET s == submit(conn, d.rpc, SubmitData(d), net)
         IN  [sent |-> 1, req |-> s.request,
              result |-> IF s.raised THEN Except(d, s.msg)
                         ELSE IF ~IsJson(s.text) THEN Except(d, JSONDecodeError)
                         ELSE Return(json_loads(s.text))]

NoNet == [kind |-> "", msg |-> NoError, body |-> Body(<<>>)]
NoCall == [cls |-> "", m |-> "", kwargs |-> {}, net |-> NoNet]

\* The payout script's state while no script runs.
NoPage == 0
NoWorld == [pages |-> <<>>, use_nft_value |-> TRUE]
NoScript ==
    /\ world = NoWorld
    /\ nfts = <<>>
    /\ spc = ""
    /\ ci = 0
    /\ fc_page = NoPage
    /\ fc_items = <<>>
    /\ fc_log = <<>>
    /\ nft_values = <<>>
    /\ zi = 0
    /\ ownership = <<>>
    /\ addition_list = <<>>
    /\ batch_i = 0
    /\ transaction = <<>>
    /\ events = <<>>
    /\ crash = NoError

Libs == {"chia_py_rpc.wallet", "ChiaRPC"}
\* the (url, cert) arguments objects are constructed with
ConstructorArgs ==
    {<<None, NoCert>>, <<"", NoCert>>, <<"https://node.local:9256", NoCert>>,
     <<"https://node.local:9256/", <<"wallet.crt", "wallet.key">> >>}

Init ==
    /\ lib \in Libs
    /\ \E args \in ConstructorArgs :
        /\ self_url = args[1]
        /\ self_cert = args[2]
    /\ rpc = IF lib = "ChiaRPC" THEN ChiaRPC__init__(self_url, self_cert)
             ELSE WalletRPCConnect__init__(self_url, self_cert)
    /\ pc = "idle"
    /\ calls = 0
    /\ nposts = 0
    /\ call = NoCall
    /\ req = NoReq
    /\ sent = 0
    /\ result = NoResult
    /\ warnings = "disabled"
    /\ NoScript

\* One invocation obj.m(**kw) on an object of class cls, from call to return or raise.
Invoke(cls, m, kw, net) ==
    /\ pc = "idle"
    /\ calls < MaxCalls
    /\ lib = "chia_py_rpc.wallet"
    /\ LET o == Run(Method(cls, m, Bind(Signature(cls, m), kw)), rpc, net)
       IN  /\ req' = o.req
           /\ sent' = o.sent
           /\ result' = o.result
           /\ nposts' = nposts + o.sent
    /\ call' = [cls |-> cls, m |-> m, kwargs |-> kw, net |-> net]
    /\ pc' = "returned"
    /\ calls' = calls + 1
    /\ UNCHANGED <<lib, self_url, self_cert, rpc, warnings, payout>>

CallOn(cls) ==
    \E m \in MethodsOf(cls) : \E kw \in Kwargs(Signature(cls, m)) : \E net \in Net :
        Invoke(cls, m, kw, net)

SharedMethodsCall == CallOn("SharedMethods")
CatWalletCall == CallOn("CatWallet")
DidWalletCall == CallOn("DidWallet")
KeyManagementCall == CallOn("KeyManagement")
PoolWalletCall == CallOn("PoolWallet")
NotificationsCall == CallOn("Notifications")
WalletCall == CallOn("Wallet")
WalletManagementCall == CallOn("WalletManagement")
WalletNodeCall == CallOn("WalletNode")
DataLayerWalletCall == CallOn("DataLayerWallet")
NFTWalletCall == CallOn("NFTWallet")
CoinsCall == CallOn("Coins")

\* One invocation of a wrapper method of the earlier revision (ChiaRPC.py).
ChiaRPCCall ==
    \E cm \in ChiaRPC_Methods : \E kw \in Kwargs(ChiaRPC_Signature(cm[2])) : \E net \in Net :
        /\ pc = "idle"
        /\ calls < MaxCalls
        /\ lib = "ChiaRPC"
        /\ LET o == Run(ChiaRPC_Method(cm[2], Bind(ChiaRPC_Signature(cm[2]), kw)), rpc, net)
           IN  /\ req' = o.req
               /\ sent' = o.sent
               /\ result' = o.result
               /\ nposts' = nposts + o.sent
        /\ call' = [cls |-> "ChiaRPC." \o cm[1], m |-> cm[2], kwargs |-> kw, net |-> net]
        /\ pc' = "returned"
        /\ calls' = calls + 1
        /\ UNCHANGED <<lib, self_url, self_cert, rpc, warnings, payout>>

\* (mutant) submit keeps the target it built in self.url
SubmitCall_url_accumulates ==
    \E chia_call \in {"get_wallet_balance", "healthz"} :
    \E payload \in {<<>>, << <<"wallet_id", "1">> >>} :
    \E net \in Net :
        /\ pc = "idle"
        /\ calls < MaxCalls
        /\ LET s == submit(rpc, chia_call, StrData(json_dumps(payload, 0, FALSE)), net)
           IN  /\ req' = s.request
               /\ result' = IF s.raised THEN Raise(s.msg) ELSE ReturnStr(s.text)
        /\ sent' = 1
        /\ nposts' = nposts + 1
        /\ call' = [cls |-> IF lib = "ChiaRPC" THEN "ChiaRPC" ELSE "WalletRPCConnect",
                    m |-> "submit",
                    kwargs |-> {<<"chia_call", chia_call>>}, net |-> net]
        /\ pc' = "returned"
        /\ calls' = calls + 1
        /\ rpc' = [rpc EXCEPT !.url = rpc.url \o chia_call]
        /\ UNCHANGED <<lib, self_url, self_cert, warnings, payout>>

\* The connection used directly, as the class docstring shows:
\* wallet_rpc.submit('get_wallet_balance', '{}')
SubmitCall ==
    \E chia_call \in {"get_wallet_balance", "healthz"} :
    \E payload \in {<<>>, << <<"wallet_id", "1">> >>} :
    \E net \in Net :
        /\ pc = "idle"
        /\ calls < MaxCalls
        /\ LET s == submit(rpc, chia_call, StrData(json_dumps(payload, 0, FALSE)), net)
           IN  /\ req' = s.request
               /\ result' = IF s.raised THEN Raise(s.msg) ELSE ReturnStr(s.text)
        /\ sent' = 1
        /\ nposts' = nposts + 1
        /\ call' = [cls |-> IF lib = "ChiaRPC" THEN "ChiaRPC" ELSE "WalletRPCConnect",
                    m |-> "submit",
                    kwargs |-> {<<"chia_call", chia_call>>}, net |-> net]
        /\ pc' = "returned"
        /\ calls' = calls + 1
        /\ UNCHANGED <<lib, self_url, self_cert, rpc, warnings, payout>>

\* The caller takes the outcome and goes on to its next call (calls are sequential).
CallerContinues ==
    /\ pc = "returned"
    /\ pc' = "idle"
    /\ call' = NoCall
    /\ req' = NoReq
    /\ sent' = 0
    /\ result' = NoResult
    /\ UNCHANGED <<lib, self_url, self_cert, rpc, calls, nposts, warnings, payout>>

Next ==
    \/ WalletNodeCall
    \/ KeyManagementCall
    \/ WalletManagementCall
    \/ WalletCall
    \/ CatWalletCall
    \/ SharedMethodsCall
    \/ DidWalletCall
    \/ PoolWalletCall
    \/ NotificationsCall
    \/ DataLayerWalletCall
    \/ NFTWalletCall
    \/ CoinsCall
    \/ ChiaRPCCall
    \/ SubmitCall
    \/ CallerContinues

Spec == Init /\ [][Next]_vars

(***************************************************************************)
(* Construction.  A process starts with urllib3's warnings enabled; it     *)
(* constructs a connection or a wrapper object from (url, cert) and, for   *)
(* SharedMethods of the later revision, disable_warnings.                  *)
(***************************************************************************)
NoConnection == [url |-> "", cert |-> NoCert, headers |-> <<>>]

\* WalletRPCConnect(url, cert, **extra): Python binds the keywords to the parameters
\* of __init__(self, url=None, cert=None); a keyword that is no parameter is a
\* TypeError and __init__ does not run.  __init__ ends with urllib3.disable_warnings().
WalletRPCConnect_new(url, cert, extra) ==
    IF extra \subseteq {"url", "cert"}
    THEN [raised |-> FALSE, msg |-> NoError, conn |-> WalletRPCConnect__init__(url, cert),
          warnings |-> "disabled"]
    ELSE [raised |-> TRUE,
          msg |-> "__init__() got an unexpected keyword argument '"
                      \o (CHOOSE k \in extra : k \notin {"url", "cert"}) \o "'",
          conn |-> NoConnection, warnings |-> warnings]

\* ChiaRPC(url, cert)
ChiaRPC_new(url, cert) ==
    [raised |-> FALSE, msg |-> NoError, conn |-> ChiaRPC__init__(url, cert),
     warnings |-> "disabled"]

\* SharedMethods.__init__(url, cert, disable_warnings):
\* WalletRPC(url=url, cert=cert, disable_warnings=disable_warnings)
SharedMethods__init__(url, cert, disable_warnings) ==
    WalletRPCConnect_new(url, cert, {"url", "cert", "disable_warnings"})

\* __init__(url, cert) of the other classes of the wallet module: WalletRPC(url, cert)
Wrapper__init__(url, cert) == WalletRPCConnect_new(url, cert, {})

\* the classes of ChiaRPC.py that wrap a connection; each __init__ is ChiaRPC(url, cert)
ChiaRPC_Classes ==
    {"SharedMethods", "CatWallet", "DidWallet", "KeyManagement", "PoolWallet",
     "Notifications", "Wallet", "WalletManagement", "WalletNode", "DataLayerWallet",
     "NFTWallet", "Coins"}

InitConstruct ==
    /\ lib \in Libs
    /\ self_url = None
    /\ self_cert = NoCert
    /\ rpc = NoConnection
    /\ pc = "new"
    /\ calls = 0
    /\ nposts = 0
    /\ call = NoCall
    /\ req = NoReq
    /\ sent = 0
    /\ result = NoResult
    /\ warnings = "enabled"
    /\ NoScript

\* the constructor of class cls, called with (url, cert) and the keywords kw, ends as o
Constructed(cls, url, cert, kw, o) ==
    /\ pc = "new"
    /\ self_url' = url
    /\ self_cert' = cert
    /\ rpc' = o.conn
    /\ warnings' = o.warnings
    /\ result' = IF o.raised THEN Raise(o.msg) ELSE ReturnNone
    /\ call' = [cls |-> cls, m |-> "__init__", kwargs |-> kw, net |-> NoNet]
    /\ pc' = "constructed"
    /\ UNCHANGED <<lib, calls, nposts, req, sent, payout>>

\* SharedMethods(url, cert) or SharedMethods(url, cert, disable_warnings=...)
ConstructSharedMethods ==
    \E args \in ConstructorArgs : \E dw \in {"<default>", "False", "True"} :
        /\ lib = "chia_py_rpc.wallet"
        /\ Constructed("SharedMethods", args[1], args[2],
                       IF dw = "<default>" THEN {} ELSE {<<"disable_warnings", dw>>},
                       SharedMethods__init__(args[1], args[2],
                                             IF dw = "<default>" THEN "False" ELSE dw))

\* CatWallet(url, cert), ..., Coins(url, cert)
ConstructWrapper ==
    \E args \in ConstructorArgs : \E cls \in Classes \ {"SharedMethods"} :
        /\ lib = "chia_py_rpc.wallet"
        /\ Constructed(cls, args[1], args[2], {}, Wrapper__init__(args[1], args[2]))

\* a class of ChiaRPC.py constructed with (url, cert)
ConstructChiaRPCWrapper ==
    \E args \in ConstructorArgs : \E cls \in ChiaRPC_Classes :
        /\ lib = "ChiaRPC"
        /\ Constructed("ChiaRPC." \o cls, args[1], args[2], {}, ChiaRPC_new(args[1], args[2]))

\* the connection class constructed directly: WalletRPCConnect(url, cert), ChiaRPC(url, cert)
ConstructConnection ==
    \E args \in ConstructorArgs :
        IF lib = "ChiaRPC"
        THEN Constructed("ChiaRPC", args[1], args[2], {}, ChiaRPC_new(args[1], args[2]))
        ELSE Constructed("WalletRPCConnect", args[1], args[2], {},
                         WalletRPCConnect_new(args[1], args[2], {"url", "cert"}))

\* the caller drops the object and goes on; the process keeps its warnings setting
Discard ==
    /\ pc = "constructed"
    /\ pc' = "new"
    /\ self_url' = None
    /\ self_cert' = NoCert
    /\ rpc' = NoConnection
    /\ call' = NoCall
    /\ result' = NoResult
    /\ UNCHANGED <<lib, calls, nposts, req, sent, warnings, payout>>

NextConstruct ==
    \/ ConstructSharedMethods
    \/ ConstructWrapper
    \/ ConstructChiaRPCWrapper
    \/ ConstructConnection
    \/ Discard

SpecConstruct == InitConstruct /\ [][NextConstruct]_vars

(***************************************************************************)
(* The payout script cats_out_the_bag.py: it pages through the NFTs of the *)
(* configured collections on the MintGarden API, sums the NFT values per   *)
(* decoded owner address, turns each owner into one addition and sends the *)
(* additions in batches through Wallet.send_transaction_multi.             *)
(***************************************************************************)
collection_ids ==
    <<"col18tmrzuymm86qefvuq28qh8d92daw4yqupzpjryvnlhg88rlp24tqtr3ja8",
      "col1s626wpqgr0p8ktvgxatz8vp669adrxamqwzqe2rvd7tns2jtg8aqlyewa9">>
amount_per_nft == 1
BatchSize == 25         \* addition_list[i * 25:(i + 1) * 25]
SleepSeconds == 105     \* sleep(105)

\* A bech32m address: the prefix and the puzzle hash it encodes.
Address(hrp, puzzle_hash) == [hrp |-> hrp, data |-> puzzle_hash]

\* bech32m.decode_puzzle_hash(address): the puzzle hash, whatever the prefix
decode_puzzle_hash(address) == address.data

\* One NFT of a collection page, and the value its metadata carries
\* (['data']['metadata_json']['attributes'][5]['value']).
Item(nft, owner) == [encoded_id |-> nft, owner_address_encoded_id |-> owner]
NftValue(nft) == (nft % 3) + 1

\* A page of the API: its items and its "next" key (NoNext: the key is absent).
NoNext == 0
Page(items, next) == [items |-> items, next |-> next]

\* What the API holds, per configured collection the pages in order.
\* Two small collections: an owner seen under two prefixes and in both collections.
SmallPages ==
    << << Page(<<Item(1, Address("xch", 1)), Item(2, Address("xch", 2))>>, 2),
          Page(<<Item(3, Address("txch", 1))>>, NoNext) >>,
       << Page(<<Item(4, Address("xch", 2)), Item(5, Address("xch", 3))>>, NoNext) >> >>

\* A page without items that still names a next page, and a collection with no page
\* of items at all.
EmptyPages ==
    << << Page(<<Item(1, Address("xch", 1))>>, 2),
          Page(<<>>, 3),
          Page(<<Item(2, Address("xch", 2))>>, NoNext) >>,
       << Page(<<>>, NoNext) >> >>

\* More owners than one batch holds.
LargePages ==
    << << Page([n \in 1..MaxOwners |-> Item(n, Address("xch", n))], 2),
          Page(<<Item(MaxOwners + 1, Address("xch", 1)),
                 Item(MaxOwners + 2, Address("txch", 2))>>, NoNext) >>,
       << Page(<<Item(MaxOwners + 3, Address("xch", MaxOwners + 1))>>, NoNext) >> >>

Worlds ==
    {[pages |-> p, use_nft_value |-> u] :
        p \in {SmallPages, EmptyPages, LargePages}, u \in BOOLEAN}

\* How a GET ends: a response with status < 400, or a requests.exceptions.RequestException
\* (no connection; raise_for_status() on a status >= 400).
ApiOutcomes == {"ok", "ConnectionError", "HTTPError"}

\* requests.get(.../collections/{collection_id}/nfts, params): the page the page
\* parameter names, the first page when there is none.
ApiResponse(pages, page_param, outcome) ==
    IF outcome = "ok"
    THEN LET pg == pages[IF page_param = NoPage THEN 1 ELSE page_param]
         IN  [ok |-> TRUE, page |-> page_param, items |-> pg.items, next |-> pg.next]
    ELSE [ok |-> FALSE, page |-> page_param, items |-> <<>>, next |-> NoNext]

\* (mutant) the except branch starts over with an empty result
fetch_collection_iteration_drops(page_param, items, response) ==
    IF ~response.ok THEN [items |-> <<>>, page |-> page_param, break |-> TRUE]
    ELSE IF response.items = <<>> THEN [items |-> items, page |-> page_param, break |-> TRUE]
    ELSE IF response.next = NoNext
    THEN [items |-> items \o response.items, page |-> page_param, break |-> TRUE]
    ELSE [items |-> items \o response.items, page |-> response.next, break |-> FALSE]

\* One iteration of the while loop of fetch_collection, params["page"] and
\* data["items"] before it and after it.
fetch_collection_iteration(page_param, items, response) ==
    IF ~response.ok THEN [items |-> items, page |-> page_param, break |-> TRUE]
    ELSE IF response.items = <<>> THEN [items |-> items, page |-> page_param, break |-> TRUE]
    ELSE IF response.next = NoNext
    THEN [items |-> items \o response.items, page |-> page_param, break |-> TRUE]
    ELSE [items |-> items \o response.items, page |-> response.next, break |-> FALSE]

\* the position of the record of owner decoded in the mapping, 0 when it has none
RecordOf(d, decoded) ==
    IF \E k \in 1..Len(d) : d[k].owner_address_decoded_id = decoded
    THEN CHOOSE k \in 1..Len(d) : d[k].owner_address_decoded_id = decoded
    ELSE 0

\* (mutant) the record is assigned anew for every item instead of setdefault
Aggregate_overwrites(d, item, nft_value) ==
    LET decoded == decode_puzzle_hash(item.owner_address_encoded_id)
        fresh == [owner_address_decoded_id |-> decoded,
                  encoded_ids |-> <<item.encoded_id>>, nft_values |-> <<nft_value>>,
                  nft_value |-> nft_value]
    IN  IF RecordOf(d, decoded) = 0 THEN Append(d, fresh)
        ELSE [d EXCEPT ![RecordOf(d, decoded)] = fresh]

\* The body of the zip loop of nft_ownership_data for one item: setdefault, the two
\* appends and the addition to nft_value.
Aggregate(d, item, nft_value) ==
    LET decoded == decode_puzzle_hash(item.owner_address_encoded_id)
        d1 == IF RecordOf(d, decoded) = 0
              THEN Append(d, [owner_address_decoded_id |-> decoded,
                              encoded_ids |-> <<>>, nft_values |-> <<>>, nft_value |-> 0])
              ELSE d
        k == RecordOf(d1, decoded)
    IN  [d1 EXCEPT ![k] = [owner_address_decoded_id |-> decoded,
                           encoded_ids |-> Append(d1[k].encoded_ids, item.encoded_id),
                           nft_values |-> Append(d1[k].nft_values, nft_value),
                           nft_value |-> d1[k].nft_value + nft_value]]

\* the addition __main__ builds from one record
Addition(line) ==
    [amount |-> line.nft_value * 1,
     puzzle_hash |-> <<"0x", line.owner_address_decoded_id>>,
     memos |-> <<>>]

\* (num_additions + 24) // 25
num_batches(list) == (Len(list) + 24) \div BatchSize

\* addition_list[i * 25:(i + 1) * 25]
batch(list, i) ==
    LET hi == IF (i + 1) * BatchSize < Len(list) THEN (i + 1) * BatchSize ELSE Len(list)
    IN  IF i * BatchSize + 1 > hi THEN <<>> ELSE SubSeq(list, i * BatchSize + 1, hi)

\* wallet.send_transaction_multi(wallet_id=..., additions=batch, fee=50000, ...) on
\* the Wallet() of the script while the network does net: how the call ends.
send_transaction_multi(conn, net) ==
    Run(Wallet("send_transaction_multi",
               Bind(WalletSignature("send_transaction_multi"), {})), conn, net).result

SendEvent(additions) == [kind |-> "send", additions |-> additions, seconds |-> 0]
SleepEvent(seconds) == [kind |-> "sleep", additions |-> <<>>, seconds |-> seconds]

\* the wallet object the script works with: wallet = Wallet()
ScriptWallet ==
    /\ lib = "chia_py_rpc.wallet"
    /\ self_url = None
    /\ self_cert = NoCert
    /\ rpc = WalletRPCConnect__init__(None, NoCert)
    /\ pc = "idle"
    /\ calls = 0
    /\ nposts = 0
    /\ call = NoCall
    /\ req = NoReq
    /\ sent = 0
    /\ result = NoResult
    /\ warnings = "disabled"

\* __main__ starts: nft_ownership_data enters its loop with the first collection
InitPayout ==
    /\ ScriptWallet
    /\ world \in Worlds
    /\ nfts = <<>>
    /\ spc = "fetch_collection"
    /\ ci = 1
    /\ fc_page = NoPage
    /\ fc_items = <<>>
    /\ fc_log = <<>>
    /\ nft_values = <<>>
    /\ zi = 0
    /\ ownership = <<>>
    /\ addition_list = <<>>
    /\ batch_i = 0
    /\ transaction = <<>>
    /\ events = <<>>
    /\ crash = NoError

\* fetch_collection: one request and what the loop does with its outcome
FetchPage ==
    \E outcome \in ApiOutcomes :
        /\ spc = "fetch_collection"
        /\ LET response == ApiResponse(world.pages[ci], fc_page, outcome)
               after == fetch_collection_iteration(fc_page, fc_items, response)
           IN  /\ fc_log' = Append(fc_log, response)
               /\ fc_items' = after.items
               /\ fc_page' = after.page
               /\ spc' = IF after.break THEN "nft_ownership_data" ELSE "fetch_collection"
        /\ nfts' = nfts \o ApiResponse(world.pages[ci], fc_page, outcome).items
        /\ UNCHANGED <<world, ci, nft_values, zi, ownership, addition_list, batch_i,
                       transaction, events, crash, client>>

\* (mutant) a failed lookup counts the NFT with amount_per_nft and goes on
FetchNftData_falls_back ==
    \E outcome \in ApiOutcomes :
        /\ spc = "nft_ownership_data"
        /\ world.use_nft_value
        /\ Len(nft_values) < Len(fc_items)
        /\ nft_values' =
               Append(nft_values,
                      IF outcome = "ok" THEN NftValue(fc_items[Len(nft_values) + 1].encoded_id)
                      ELSE amount_per_nft)
        /\ UNCHANGED <<world, nfts, spc, ci, fc_page, fc_items, fc_log, zi, ownership,
                       addition_list, batch_i, transaction, events, crash, client>>

\* fetch_nft_data(item['encoded_id'])['data']... for the next item of the list
\* comprehension: a failed request gives {} and the subscript raises KeyError
FetchNftData ==
    \E outcome \in ApiOutcomes :
        /\ spc = "nft_ownership_data"
        /\ world.use_nft_value
        /\ Len(nft_values) < Len(fc_items)
        /\ IF outcome = "ok"
           THEN /\ nft_values' =
                       Append(nft_values, NftValue(fc_items[Len(nft_values) + 1].encoded_id))
                /\ UNCHANGED <<spc, crash>>
           ELSE /\ crash' = "KeyError: 'data'"
                /\ spc' = "crashed"
                /\ UNCHANGED nft_values
        /\ UNCHANGED <<world, nfts, ci, fc_page, fc_items, fc_log, zi, ownership, addition_list,
                       batch_i, transaction, events, client>>

\* nft_values = [amount_per_nft for _ in data['items']]
FlatValues ==
    /\ spc = "nft_ownership_data"
    /\ ~world.use_nft_value
    /\ Len(nft_values) < Len(fc_items)
    /\ nft_values' = [k \in 1..Len(fc_items) |-> amount_per_nft]
    /\ UNCHANGED <<world, nfts, spc, ci, fc_page, fc_items, fc_log, zi, ownership, addition_list,
                   batch_i, transaction, events, crash, client>>

\* one pass of: for item, nft_value in zip(data['items'], nft_values)
AggregateItem ==
    /\ spc = "nft_ownership_data"
    /\ Len(nft_values) = Len(fc_items)
    /\ zi < Len(fc_items)
    /\ zi' = zi + 1
    /\ ownership' = Aggregate(ownership, fc_items[zi + 1], nft_values[zi + 1])
    /\ UNCHANGED <<world, nfts, spc, ci, fc_page, fc_items, fc_log, nft_values, addition_list,
                   batch_i, transaction, events, crash, client>>

\* the collection is done: on to the next collection_id
NextCollection ==
    /\ spc = "nft_ownership_data"
    /\ Len(nft_values) = Len(fc_items)
    /\ zi = Len(fc_items)
    /\ ci < Len(collection_ids)
    /\ ci' = ci + 1
    /\ spc' = "fetch_collection"
    /\ fc_page' = NoPage
    /\ fc_items' = <<>>
    /\ fc_log' = <<>>
    /\ nft_values' = <<>>
    /\ zi' = 0
    /\ UNCHANGED <<world, nfts, ownership, addition_list, batch_i, transaction, events, crash,
                   client>>

\* nft_ownership_data returns list(values) and __main__ builds the addition list
BuildAdditions ==
    /\ spc = "nft_ownership_data"
    /\ Len(nft_values) = Len(fc_items)
    /\ zi = Len(fc_items)
    /\ ci = Len(collection_ids)
    /\ addition_list' = IF ownership = <<>> THEN <<>>
                        ELSE [k \in 1..Len(ownership) |-> Addition(ownership[k])]
    /\ batch_i' = 0
    /\ spc' = "send_transactions"
    /\ UNCHANGED <<world, nfts, ci, fc_page, fc_items, fc_log, nft_values, zi, ownership,
                   transaction, events, crash, client>>

\* send_transactions, one pass of the loop up to print(json.dumps(transaction))
SendBatch ==
    \E net \in Net :
        /\ spc = "send_transactions"
        /\ batch_i < num_batches(addition_list)
        /\ batch(addition_list, batch_i) # <<>>
        /\ events' = Append(events, SendEvent(batch(addition_list, batch_i)))
        /\ LET o == send_transaction_multi(rpc, net)
           IN  IF o.kind = "raise"
               THEN /\ crash' = o.exc
                    /\ spc' = "crashed"
                    /\ UNCHANGED transaction
               ELSE /\ transaction' = o.value
                    /\ spc' = "sleep"
                    /\ UNCHANGED crash
        /\ UNCHANGED <<world, nfts, ci, fc_page, fc_items, fc_log, nft_values, zi, ownership,
                       addition_list, batch_i, client>>

\* (mutant) a batch answered with an error dictionary is sent again
Sleep_retries_failed ==
    /\ spc = "sleep"
    /\ events' = Append(events, SleepEvent(SleepSeconds))
    /\ batch_i' = IF "error" \in Keys(transaction) THEN batch_i ELSE batch_i + 1
    /\ spc' = "send_transactions"
    /\ UNCHANGED <<world, nfts, ci, fc_page, fc_items, fc_log, nft_values, zi, ownership,
                   addition_list, transaction, crash, client>>

\* sleep(105), then the next i of range(num_batches)
Sleep ==
    /\ spc = "sleep"
    /\ events' = Append(events, SleepEvent(SleepSeconds))
    /\ batch_i' = batch_i + 1
    /\ spc' = "send_transactions"
    /\ UNCHANGED <<world, nfts, ci, fc_page, fc_items, fc_log, nft_values, zi, ownership,
                   addition_list, transaction, crash, client>>

\* range(num_batches) is exhausted: send_transactions returns
Finish ==
    /\ spc = "send_transactions"
    /\ batch_i >= num_batches(addition_list)
    /\ spc' = "done"
    /\ UNCHANGED <<world, nfts, ci, fc_page, fc_items, fc_log, nft_values, zi, ownership,
                   addition_list, batch_i, transaction, events, crash, client>>

NextPayout ==
    \/ FetchPage
    \/ FetchNftData
    \/ FlatValues
    \/ AggregateItem
    \/ NextCollection
    \/ BuildAdditions
    \/ SendBatch
    \/ Sleep
    \/ Finish

SpecPayout == InitPayout /\ [][NextPayout]_vars

\* send_transactions(wallet_id, addition_list) called on a list of n additions
AdditionsOf(n) ==
    IF n = 0 THEN <<>>
    ELSE [k \in 1..n |-> [amount |-> NftValue(k), puzzle_hash |-> <<"0x", k>>, memos |-> <<>>]]

InitSend ==
    /\ ScriptWallet
    /\ world = NoWorld
    /\ nfts = <<>>
    /\ spc = "send_transactions"
    /\ ci = 0
    /\ fc_page = NoPage
    /\ fc_items = <<>>
    /\ fc_log = <<>>
    /\ nft_values = <<>>
    /\ zi = 0
    /\ ownership = <<>>
    /\ addition_list \in {AdditionsOf(n) : n \in 0..MaxAdditions}
    /\ batch_i = 0
    /\ transaction = <<>>
    /\ events = <<>>
    /\ crash = NoError

NextSend ==
    \/ SendBatch
    \/ Sleep
    \/ Finish

SpecSend == InitSend /\ [][NextSend]_vars

(***************************************************************************)
(* Properties.                                                             *)
(***************************************************************************)
\* a wrapper method of chia_py_rpc/wallet.py has ended
WrapperReturned == pc = "returned" /\ call.cls \in Classes

\* ... and it has issued its request
WrapperPosted == WrapperReturned /\ sent > 0

\* the dict as a mapping from its keys to its values
AsMap(d) == [k \in Keys(d) |-> Get(d, k)]

\* the JSON object a body denotes: each key with the value of its last occurrence
JsonObject(text) ==
    LET ms == text.members
        last(k) == CHOOSE i \in 1..Len(ms) :
                       ms[i][1] = k /\ \A j \in (i + 1)..Len(ms) : ms[j][1] # k
    IN  [k \in {ms[i][1] : i \in 1..Len(ms)} |-> FromJson(ms[last(k)][2])]

\* submit raised: the request failed or the body is no JSON
SubmitFailed == call.net.kind = "fail" \/ ~IsJson(call.net.body)

\* the message of the exception submit raised
SubmitMessage == IF call.net.kind = "fail" THEN call.net.msg ELSE JSONDecodeError

\* C1: in every class of the wallet module, a wrapper method whose request fails
\* in transport (connection refused, timeout) returns {"error": <message>}; no
\* exception reaches the caller.
C1_TransportFailureReturnsErrorDict ==
    (WrapperPosted /\ call.net.kind = "fail")
        => result = Return(ErrorDict(call.net.msg))

C3_MalformedBodyReturnsErrorValue ==
    (WrapperPosted /\ call.net.kind = "reply" /\ ~IsJson(call.net.body))
        => result.kind = "return" /\ "error" \in Keys(result.value)

\* C4: when the daemon replies with a JSON object R, every wrapper method returns R
\* exactly: the same keys with the same values, whatever the connection's
\* re-serialisation (sorted keys, indentation) and the method's re-parsing did.
C4_ReplyReturnedUnmodified ==
    (WrapperPosted /\ call.net.kind = "reply" /\ IsJson(call.net.body))
        => /\ result.kind = "return"
           /\ AsMap(result.value) = JsonObject(call.net.body)

\* C4 happens: get_wallet_balance has returned the reply of the round-trip scenario,
\* {"success": true, "wallet_id": 1, "balance": 100}.
C4_Witness ==
    /\ WrapperReturned
    /\ call.m = "get_wallet_balance"
    /\ call.net.body = BalanceReply
    /\ result.kind = "return"
    /\ Keys(result.value) = {"success", "wallet_id", "balance"}
    /\ Get(result.value, "success") = "True"
    /\ Get(result.value, "wallet_id") = "1"
    /\ Get(result.value, "balance") = "100"

\* the key under which a parameter of method m travels in the body
WireKey(m, p) == IF m = "get_wallets" /\ p = "wallet_type" THEN "type" ELSE p

\* C5: the request body of a wrapper method has exactly the keys of the method's
\* required parameters and of the optional parameters the caller supplied: a
\* supplied 0 or False is sent, a parameter left at its default is not.
C5_BodyKeysAreRequiredAndSupplied ==
    WrapperPosted
        => Keys(req.data.members) =
               {WireKey(call.m, p) :
                   p \in RequiredNames(Signature(call.cls, call.m))
                             \cup SuppliedNames(call.kwargs)}

\* C6: no request body built by a wrapper method of the wallet module has a key
\* whose value is null.
C6_NoNullInBody ==
    WrapperPosted
        => \A i \in 1..Len(req.data.members) : req.data.members[i][2] \notin {"null", None}

\* the rpc name each public method is expected to post to
ExpectedEndpoint(m) ==
    CASE m = "check_healthz" -> "healthz"
      [] m = "get_wallet_transaction_count" -> "get_transaction_count"
      [] m = "push_transaction" -> "push_tx"
      [] OTHER -> m

\* the public methods that post, each as <<class, method>>
PostingMethods ==
    {cm \in UNION {{<<cls, m>> : m \in MethodsOf(cls)} : cls \in Classes} :
        Method(cm[1], cm[2], Bind(Signature(cm[1], cm[2]), {})).pass # "nosubmit"}

\* the rpc name a public method posts to
EndpointOf(cm) == Method(cm[1], cm[2], Bind(Signature(cm[1], cm[2]), {})).rpc

\* no other public method posts to the endpoint the last call posted to
NoOtherMethodPostsThere ==
    \A cm \in PostingMethods :
        cm # <<call.cls, call.m>> => rpc.url \o EndpointOf(cm) # req.url

\* C7 (as claimed): every public wrapper method posts to the endpoint named exactly
\* like the method, and no two public methods post to the same endpoint.
C7_EndpointIsMethodName ==
    WrapperPosted
        => /\ req.url = rpc.url \o call.m
           /\ NoOtherMethodPostsThere

\* C7 (amended): every public wrapper method that posts does so to one fixed
\* endpoint, named like the method except for check_healthz (healthz),
\* get_wallet_transaction_count (get_transaction_count) and push_transaction
\* (push_tx); no two public methods post to the same endpoint.
C7_EndpointPerMethod ==
    WrapperPosted
        => /\ req.url = rpc.url \o ExpectedEndpoint(call.m)
           /\ NoOtherMethodPostsThere

\* C7 happens: check_healthz has posted to healthz.
C7_Witness ==
    /\ WrapperPosted
    /\ call.m = "check_healthz"
    /\ req.url = rpc.url \o "healthz"
    /\ req.url # rpc.url \o "check_healthz"

\* the rpc name the last call asked for
CalledEndpoint ==
    IF call.m = "submit"
    THEN (CHOOSE pr \in call.kwargs : pr[1] = "chia_call")[2]
    ELSE ExpectedEndpoint(call.m)

\* every request is a POST to <base url><rpc name> with the JSON content type and
\* the connection's certificate pair
RequestShape ==
    (pc = "returned" /\ sent > 0)
        => /\ req.method = "POST"
           /\ req.url = rpc.url \o CalledEndpoint
           /\ req.headers = << <<"Content-Type", "application/json">> >>
           /\ Len(req.cert) = 2
           /\ req.cert = rpc.cert
           /\ (self_cert # NoCert => req.cert = self_cert)

\* the base url is the default when no url was supplied, else the supplied url
BaseUrlUnlessNone ==
    (pc = "returned" /\ sent > 0)
        => rpc.url = IF self_url = None THEN "https://localhost:9256/" ELSE self_url

\* the base url is the default when no url or an empty url was supplied
BaseUrlUnlessEmpty ==
    (pc = "returned" /\ sent > 0)
        => rpc.url = IF self_url \in {None, ""} THEN "https://localhost:9256/" ELSE self_url

\* C8 (as claimed): every request is a POST to exactly <base url><rpc name> with
\* Content-Type: application/json and the client certificate pair; the base url is
\* https://localhost:9256/ when no url was supplied at construction and the
\* supplied url otherwise.
C8_PostToBaseUrlPlusRpcName == RequestShape /\ BaseUrlUnlessNone

\* C8 (amended): as claimed, except that the base url is https://localhost:9256/
\* when no url or an empty url was supplied, and the supplied url otherwise.
C8_PostToBaseUrlOrDefault == RequestShape /\ BaseUrlUnlessEmpty

\* C8 happens: an object constructed with a url that has no trailing slash has
\* posted get_wallet_balance to the two strings joined as they are.
C8_Witness ==
    /\ WrapperPosted
    /\ self_url = "https://node.local:9256"
    /\ call.m = "get_wallet_balance"
    /\ req.method = "POST"
    /\ req.url = "https://node.local:9256get_wallet_balance"

\* C9: the request body every wrapper method hands to the transport is a
\* serialised JSON object ("{}" when the call has no parameters), never a raw
\* dictionary, and no request goes out with an empty body.
C9_BodyIsSerialisedJson ==
    WrapperPosted
        => /\ req.data.type = "str"
           /\ req.body = "text"

\* C10: every invocation of a public wrapper method performs exactly one POST,
\* whether the request succeeds or fails; none returns without having issued it.
C10_ExactlyOnePostPerInvocation ==
    WrapperReturned => sent = 1


\* a wrapper method of the earlier revision (ChiaRPC.py) has ended
ChiaRPCWrapperReturned == pc = "returned" /\ lib = "ChiaRPC" /\ call.m # "submit"

\* C11: in the earlier revision (ChiaRPC.py) every wrapper method of every class
\* lets a transport or JSON-decode failure of submit raise to the caller, with the
\* exception submit raised; a method that returns a dictionary returns the daemon's
\* object, never an error dictionary of its own making.
C11_EarlierRevisionLetsFailuresRaise ==
    ChiaRPCWrapperReturned
        => /\ SubmitFailed => (result.kind = "raise" /\ (sent > 0 => result.exc = SubmitMessage))
           /\ result.kind = "return"
                  => (~SubmitFailed /\ AsMap(result.value) = JsonObject(call.net.body))

\* C11 happens: Wallet.get_wallet_balance of ChiaRPC.py, its request refused, has
\* ended by raising the transport's exception.
C11_Witness ==
    /\ ChiaRPCWrapperReturned
    /\ call.cls = "ChiaRPC.Wallet"
    /\ call.m = "get_wallet_balance"
    /\ sent = 1
    /\ call.net.kind = "fail"
    /\ call.net.msg = "Connection refused"
    /\ result = Raise("Connection refused")


\* the connection as the constructor set it up from the object's arguments
ConstructedConnection ==
    IF lib = "ChiaRPC" THEN ChiaRPC__init__(self_url, self_cert)
    ELSE WalletRPCConnect__init__(self_url, self_cert)

\* the request the last wrapper call builds from its own arguments on a freshly
\* constructed connection
RequestOfCallAlone ==
    IF lib = "ChiaRPC"
    THEN Run(ChiaRPC_Method(call.m, Bind(ChiaRPC_Signature(call.m), call.kwargs)),
             ConstructedConnection, call.net).req
    ELSE Run(Method(call.cls, call.m, Bind(Signature(call.cls, call.m), call.kwargs)),
             ConstructedConnection, call.net).req

\* C12: across any sequence of calls on one client object, successful or failed,
\* the connection's base url, certificate pair and headers stay as set at
\* construction, and the request a wrapper call builds is the one its arguments
\* give on a fresh object, whichever calls preceded it.
C12_CallsLeaveNoState ==
    /\ rpc = ConstructedConnection
    /\ (pc = "returned" /\ call.m # "submit") => req = RequestOfCallAlone

\* C12 happens: create_offer_for_ids has posted as the second call on its object,
\* after a first call that posted as well.
C12_Witness ==
    /\ WrapperPosted
    /\ call.m = "create_offer_for_ids"
    /\ calls = 2
    /\ nposts = 2
    /\ rpc.headers = << <<"Content-Type", "application/json">> >>
    /\ req.url = rpc.url \o "create_offer_for_ids"


\* a SharedMethods object of the later revision has been constructed, or its
\* construction has failed
SharedMethodsConstructed == pc = "constructed" /\ call.cls = "SharedMethods"

\* the disable_warnings argument of the last construction (False when left out)
DisableWarningsArgument ==
    IF \E pr \in call.kwargs : pr[1] = "disable_warnings"
    THEN (CHOOSE pr \in call.kwargs : pr[1] = "disable_warnings")[2]
    ELSE "False"

\* C13: SharedMethods takes url, cert and disable_warnings and forwards them to the
\* connection: construction succeeds (with the defaults too), the connection is the
\* one (url, cert) give, and urllib3's warnings are disabled exactly when
\* disable_warnings is true.
C13_SharedMethodsForwardsConstructorArguments ==
    SharedMethodsConstructed
        => /\ result.kind # "raise"
           /\ rpc = WalletRPCConnect__init__(self_url, self_cert)
           /\ (warnings = "disabled") <=> (DisableWarningsArgument = "True")


\* the script has ended: send_transactions returned, or an exception ended the run
ScriptEnded == spc \in {"done", "crashed"}

\* the batches handed to send_transaction_multi so far, in call order
Batches ==
    LET sends == SelectSeq(events, LAMBDA e : e.kind = "send")
    IN  IF sends = <<>> THEN <<>> ELSE [k \in 1..Len(sends) |-> sends[k].additions]

RECURSIVE Concatenation(_)
Concatenation(seqs) ==
    IF seqs = <<>> THEN <<>> ELSE Head(seqs) \o Concatenation(Tail(seqs))

\* ceil(n / 25): the least number of batches of 25 that hold n additions
CeilingOfBatches(n) == CHOOSE k \in 0..n : k * 25 >= n /\ \A j \in 0..(k - 1) : j * 25 < n

\* C14: for an addition list of length n, send_transactions makes exactly
\* ceil(n / 25) send_transaction_multi calls (none when n = 0), every batch has
\* between 1 and 25 additions, and the batches concatenated in call order are the
\* addition list: nothing skipped, nothing duplicated, order kept.
C14_BatchesCoverTheAdditionList ==
    ScriptEnded
        => /\ Len(Batches) = CeilingOfBatches(Len(addition_list))
           /\ \A k \in 1..Len(Batches) : Len(Batches[k]) \in 1..25
           /\ Concatenation(Batches) = addition_list


\* C15: in send_transactions every send is followed by one sleep of 105 seconds
\* before anything else happens: the events of a run are send, sleep, send,
\* sleep, ..., no two sends are adjacent, and the last send has its sleep too.
C15_EverySendIsFollowedByItsSleep ==
    /\ \A k \in 1..Len(events) :
           /\ events[k].kind = IF k % 2 = 1 THEN "send" ELSE "sleep"
           /\ events[k].kind = "sleep" => events[k].seconds = 105
    /\ ScriptEnded => Len(events) % 2 = 0


\* a request of fetch_collection after which the loop stops: it failed, its page
\* has no items, or its page has no "next" key
StopsTheLoop(r) == ~r.ok \/ r.items = <<>> \/ r.next = NoNext

\* the items of the requests so far, in visiting order (a failed request has none)
ItemsFetched ==
    IF fc_log = <<>> THEN <<>>
    ELSE Concatenation([k \in 1..Len(fc_log) |-> fc_log[k].items])

\* C16: fetch_collection returns the items of every page it fetched successfully,
\* concatenated in visiting order; its first request has no page parameter, each
\* following request has page = the previous page's "next" value; it stops at the
\* first page without items, the first page without a "next" key or the first
\* failed request; a failed request raises nothing and the items fetched before it
\* are kept.
C16_FetchCollectionConcatenatesPages ==
    /\ fc_items = ItemsFetched
    /\ fc_log # <<>> => fc_log[1].page = NoPage
    /\ \A k \in 1..(Len(fc_log) - 1) :
           /\ ~StopsTheLoop(fc_log[k])
           /\ fc_log[k + 1].page = fc_log[k].next
    /\ spc = "fetch_collection" => (fc_log # <<>> => ~StopsTheLoop(fc_log[Len(fc_log)]))
    /\ spc # "fetch_collection" => (fc_log # <<>> /\ StopsTheLoop(fc_log[Len(fc_log)]))
    /\ crash \notin {"ConnectionError", "HTTPError"}

\* C16 happens: the second request of a collection failed after a first page with
\* two items; fetch_collection has returned those two items.
C16_Witness ==
    /\ spc = "nft_ownership_data"
    /\ ci = 1
    /\ Len(fc_log) = 2
    /\ fc_log[1].ok /\ fc_log[1].page = NoPage /\ fc_log[1].next = 2
    /\ ~fc_log[2].ok /\ fc_log[2].page = 2
    /\ Len(fc_items) = 2
    /\ fc_items = fc_log[1].items
    /\ crash = NoError


RECURSIVE Sum(_)
Sum(numbers) == IF numbers = <<>> THEN 0 ELSE Head(numbers) + Sum(Tail(numbers))

\* the value the script pays for one NFT
ValueOf(nft) == IF world.use_nft_value THEN NftValue(nft) ELSE amount_per_nft

\* the puzzle hash an item's owner address stands for
OwnerOf(item) == item.owner_address_encoded_id.data

\* the NFTs among items that owner holds, in order, and what they are worth together
NftsOf(items, owner) ==
    LET held == SelectSeq(items, LAMBDA item : OwnerOf(item) = owner)
    IN  IF held = <<>> THEN <<>> ELSE [k \in 1..Len(held) |-> held[k].encoded_id]
WorthOf(items, owner) ==
    LET held == NftsOf(items, owner)
    IN  IF held = <<>> THEN 0 ELSE Sum([k \in 1..Len(held) |-> ValueOf(held[k])])
OwnersOf(items) == {OwnerOf(items[k]) : k \in 1..Len(items)}

\* the additions handed to send_transaction_multi so far, over all batches
AdditionsSent == Concatenation(Batches)

\* nft_ownership_data has returned and send_transactions has run to its end
PayoutEnded == spc = "done" \/ (spc = "crashed" /\ events # <<>>)

\* C17: end to end, each distinct decoded owner address is in exactly one addition
\* over all batches sent, with puzzle_hash "0x" + address and amount the sum of the
\* values of that owner's NFTs over all collections; so the total paid is the sum
\* of the values of all fetched NFTs.
C17_EveryOwnerIsPaidOnce ==
    PayoutEnded
        => /\ \A owner \in OwnersOf(nfts) :
                  /\ Cardinality({k \in 1..Len(AdditionsSent) :
                                     AdditionsSent[k].puzzle_hash = <<"0x", owner>>}) = 1
                  /\ \A k \in 1..Len(AdditionsSent) :
                         AdditionsSent[k].puzzle_hash = <<"0x", owner>>
                             => AdditionsSent[k].amount = WorthOf(nfts, owner)
           /\ (IF AdditionsSent = <<>> THEN 0
               ELSE Sum([k \in 1..Len(AdditionsSent) |-> AdditionsSent[k].amount]))
                  = (IF nfts = <<>> THEN 0
                     ELSE Sum([k \in 1..Len(nfts) |-> ValueOf(nfts[k].encoded_id)]))

\* the items nft_ownership_data has put into the mapping so far
Processed ==
    IF Len(nfts) - Len(fc_items) + zi = 0 THEN <<>>
    ELSE SubSeq(nfts, 1, Len(nfts) - Len(fc_items) + zi)

\* C18: after any number of items and collections, every record has nft_value
\* equal to the sum of its nft_values, encoded_ids and nft_values of one length with
\* position i of both describing the same NFT, and there is exactly one record per
\* distinct decoded owner address, holding that owner's NFTs of all collections.
C18_OneMergedRecordPerOwner ==
    /\ \A k \in 1..Len(ownership) :
           LET r == ownership[k]
           IN  /\ r.nft_value = Sum(r.nft_values)
               /\ Len(r.encoded_ids) = Len(r.nft_values)
               /\ \A j \in 1..Len(r.encoded_ids) : r.nft_values[j] = ValueOf(r.encoded_ids[j])
               /\ r.encoded_ids = NftsOf(Processed, r.owner_address_decoded_id)
    /\ \A k, j \in 1..Len(ownership) :
           k # j => ownership[k].owner_address_decoded_id # ownership[j].owner_address_decoded_id
    /\ {ownership[k].owner_address_decoded_id : k \in 1..Len(ownership)} = OwnersOf(Processed)

\* C18 happens: an owner whose NFTs 1 and 3 came under two address prefixes and an
\* owner with NFTs 2 and 4 in two collections have one record each.
C18_Witness ==
    /\ spc = "send_transactions"
    /\ world.use_nft_value
    /\ Len(ownership) = 3
    /\ ownership[1] = [owner_address_decoded_id |-> 1, encoded_ids |-> <<1, 3>>,
                       nft_values |-> <<2, 1>>, nft_value |-> 3]
    /\ ownership[2].encoded_ids = <<2, 4>>
    /\ ownership[2].nft_value = 5


\* the value the last call's parameter p is bound to
Arg(p) == Bind(Signature(call.cls, call.m), call.kwargs)[p]

\* the last call is CatWallet.m of the later revision and has posted
CatWalletPosted(m) == WrapperPosted /\ call.cls = "CatWallet" /\ call.m = m

\* key k is in the request body exactly when present is true, and then with the
\* argument's value
InBodyIff(k, present) ==
    /\ (k \in Keys(req.data.members)) <=> present
    /\ present => Get(req.data.members, k) = ToJson(Arg(k))

\* C19: cat_spend always sends wallet_id and inner_address; coins, amount, fee,
\* memos, exclude_coin_amounts, exclude_coin_ids exactly when the argument is not
\* None; min_coin_amount and max_coin_amount exactly when the argument is not 0;
\* reuse_puzhash exactly when the argument is true.  So min_coin_amount 0,
\* max_coin_amount 0 and reuse_puzhash false cannot be sent.
C19_CatSpendBodyRule ==
    CatWalletPosted("cat_spend")
        => /\ InBodyIff("wallet_id", TRUE)
           /\ InBodyIff("inner_address", TRUE)
           /\ \A k \in {"coins", "amount", "fee", "memos", "exclude_coin_amounts",
                         "exclude_coin_ids"} : InBodyIff(k, Arg(k) # None)
           /\ \A k \in {"min_coin_amount", "max_coin_amount"} : InBodyIff(k, Arg(k) # "0")
           /\ InBodyIff("reuse_puzhash", Arg("reuse_puzhash") = "True")
           /\ \A i \in 1..Len(req.data.members) :
                  req.data.members[i][1] \in {"min_coin_amount", "max_coin_amount"}
                      => req.data.members[i][2] # "0"
           /\ \A i \in 1..Len(req.data.members) :
                  req.data.members[i][1] = "reuse_puzhash" => req.data.members[i][2] # "false"

\* C19 happens: cat_spend called with min_coin_amount=0 has posted a body without
\* that key.
C19_Witness ==
    /\ CatWalletPosted("cat_spend")
    /\ <<"min_coin_amount", "0">> \in call.kwargs
    /\ Keys(req.data.members) = {"wallet_id", "inner_address"}

\* C20: create_offer_for_ids always sends offer and driver_dict ({} for None);
\* fee, min_coin_amount, max_coin_amount, solver, min_height, min_time, max_height,
\* max_time exactly when the argument is not None; validate_only and reuse_puzhash
\* whenever their argument is a boolean, the default False included.
C20_CreateOfferBodyRule ==
    CatWalletPosted("create_offer_for_ids")
        => /\ InBodyIff("offer", TRUE)
           /\ "driver_dict" \in Keys(req.data.members)
           /\ Get(req.data.members, "driver_dict") =
                  (IF Arg("driver_dict") = None THEN "{}" ELSE ToJson(Arg("driver_dict")))
           /\ \A k \in {"fee", "min_coin_amount", "max_coin_amount", "solver", "min_height",
                         "min_time", "max_height", "max_time"} : InBodyIff(k, Arg(k) # None)
           /\ \A k \in {"validate_only", "reuse_puzhash"} :
                  Arg(k) \in {"True", "False"} => InBodyIff(k, TRUE)

\* C20 happens: create_offer_for_ids called with the offer only has posted offer,
\* driver_dict {} and the two flags as false.
C20_Witness ==
    /\ CatWalletPosted("create_offer_for_ids")
    /\ call.kwargs = {}
    /\ Keys(req.data.members) = {"offer", "driver_dict", "validate_only", "reuse_puzhash"}
    /\ Get(req.data.members, "driver_dict") = "{}"
    /\ Get(req.data.members, "validate_only") = "false"
    /\ Get(req.data.members, "reuse_puzhash") = "false"


\* the last call is Wallet.m of the later revision and has posted
WalletPosted(m) == WrapperPosted /\ call.cls = "Wallet" /\ call.m = m

\* C21: Wallet.send_transaction always sends wallet_id, amount, address and
\* reuse_puzhash, and sends each of fee, memos, min_coin_amount, max_coin_amount,
\* exclude_coin_amounts, exclude_coin_ids exactly when its argument is not None: a
\* fee of 0 and an empty memos list are sent, not dropped.
C21_SendTransactionBodyRule ==
    WalletPosted("send_transaction")
        => /\ \A k \in {"wallet_id", "amount", "address", "reuse_puzhash"} : InBodyIff(k, TRUE)
           /\ \A k \in {"fee", "memos", "min_coin_amount", "max_coin_amount",
                         "exclude_coin_amounts", "exclude_coin_ids"} :
                  InBodyIff(k, Arg(k) # None)
           /\ Arg("fee") = "0" => Get(req.data.members, "fee") = "0"
           /\ Arg("memos") = "[]" => Get(req.data.members, "memos") = "[]"

\* C21 happens: send_transaction called with fee=0 has posted a body with fee 0.
C21_Witness ==
    /\ WalletPosted("send_transaction")
    /\ call.kwargs = {<<"fee", "0">>}
    /\ Keys(req.data.members) = {"wallet_id", "amount", "address", "reuse_puzhash", "fee"}
    /\ Get(req.data.members, "fee") = "0"
    /\ Get(req.data.members, "reuse_puzhash") = "true"


\* C22: CatWallet.get_all_offers sends a body whose keys are exactly those of its
\* eight arguments that are not None, each with the caller's value (False and 0
\* are sent); called with no arguments it sends the empty object.
C22_GetAllOffersBodyRule ==
    CatWalletPosted("get_all_offers")
        => /\ \A k \in {"start", "end", "exclude_my_offers", "exclude_taken_offers",
                         "include_completed", "reverse", "file_contents", "sort_key"} :
                  InBodyIff(k, Arg(k) # None)
           /\ Keys(req.data.members) \subseteq
                  {"start", "end", "exclude_my_offers", "exclude_taken_offers",
                   "include_completed", "reverse", "file_contents", "sort_key"}
           /\ call.kwargs = {} =>
                  (req.data.type = "str" /\ req.data.members = <<>> /\ req.body = "text")

\* C22 happens: get_all_offers called with exclude_my_offers=False has posted a body
\* with that key alone, as false.
C22_Witness ==
    /\ CatWalletPosted("get_all_offers")
    /\ call.kwargs = {<<"exclude_my_offers", "False">>}
    /\ req.data.members = << <<"exclude_my_offers", "false">> >>


\* the value bound to parameter p of the last call, in either revision
ArgOf(p) ==
    IF lib = "ChiaRPC" THEN Bind(ChiaRPC_Signature(call.m), call.kwargs)[p] ELSE Arg(p)

\* the last call is Wallet.get_spendable_coins of either revision and has posted
GetSpendableCoinsPosted ==
    /\ pc = "returned" /\ sent > 0
    /\ call.cls \in {"Wallet", "ChiaRPC.Wallet"}
    /\ call.m = "get_spendable_coins"

\* C23: Wallet.get_spendable_coins (both revisions) always sends the six keys
\* wallet_id, min_coin_amount, max_coin_amount, excluded_coin_amounts,
\* excluded_coins, excluded_coin_ids; the three exclusion keys are never null: a
\* None or empty argument is sent as [], a non-empty list unchanged.
C23_GetSpendableCoinsBodyRule ==
    GetSpendableCoinsPosted
        => /\ Keys(req.data.members) =
                  {"wallet_id", "min_coin_amount", "max_coin_amount",
                   "excluded_coin_amounts", "excluded_coins", "excluded_coin_ids"}
           /\ Len(req.data.members) = 6
           /\ \A k \in {"excluded_coin_amounts", "excluded_coins", "excluded_coin_ids"} :
                  /\ Get(req.data.members, k) # "null"
                  /\ ArgOf(k) \in {None, "[]"} => Get(req.data.members, k) = "[]"
                  /\ ArgOf(k) \notin {None, "[]"} => Get(req.data.members, k) = ToJson(ArgOf(k))

\* C23 happens: get_spendable_coins called with excluded_coins=['a'] has posted that
\* list unchanged and [] for the two exclusion arguments left None.
C23_Witness ==
    /\ GetSpendableCoinsPosted
    /\ call.kwargs = {<<"excluded_coins", "['a']">>}
    /\ Get(req.data.members, "excluded_coins") = "[\"a\"]"
    /\ Get(req.data.members, "excluded_coin_ids") = "[]"
    /\ ArgOf("excluded_coin_ids") = None


\* the last call is CatWallet.cancel_offers of the later revision
CancelOffersReturned == WrapperReturned /\ call.cls = "CatWallet" /\ call.m = "cancel_offers"

\* C24: CatWallet.cancel_offers always sends the five keys secure, batch_fee,
\* batch_size, cancel_all and asset_id, with asset_id lower-cased (an id already
\* in lower case is sent as it is); when asset_id is not a string the body cannot
\* be built: no request is sent and the call returns an {"error": ...} dictionary.
C24_CancelOffersBodyRule ==
    CancelOffersReturned
        => /\ sent > 0 <=> TypeName(Arg("asset_id")) = "str"
           /\ sent > 0 =>
                  /\ Keys(req.data.members) =
                         {"secure", "batch_fee", "batch_size", "cancel_all", "asset_id"}
                  /\ Len(req.data.members) = 5
                  /\ \A k \in {"secure", "batch_fee", "batch_size", "cancel_all"} :
                         Get(req.data.members, k) = ToJson(Arg(k))
                  /\ Arg("asset_id") \in {PyStr("XCH"), PyStr("xch")}
                         => Get(req.data.members, "asset_id") = JsonStr("xch")
           /\ sent = 0 =>
                  /\ req = NoReq
                  /\ result.kind = "return"
                  /\ Keys(result.value) = {"error"}
                  /\ result.value =
                         ErrorDict("'" \o TypeName(Arg("asset_id"))
                                       \o "' object has no attribute 'lower'")

\* C24 happens: cancel_offers called with asset_id='XCH' has posted "xch".
C24_Witness ==
    /\ CancelOffersReturned
    /\ call.kwargs = {<<"asset_id", PyStr("XCH")>>}
    /\ sent = 1
    /\ Get(req.data.members, "asset_id") = JsonStr("xch")


\* C25: send_transactions does not look at the outcome of a batch. The batches
\* handed to send_transaction_multi are batch 0, 1, 2, ... of the addition list,
\* each once and in order: a batch answered with a failure or an error dictionary
\* is not sent again and the loop goes on to the next batch. A call that raises
\* ends the run at once: the batches before it are sent, the ones after it are
\* not, and nothing (not even the sleep) follows the raising call.
C25_SendTransactionsIgnoresOutcome ==
    /\ \A k \in 1..Len(Batches) : Batches[k] = batch(addition_list, k - 1)
    /\ Len(Batches) <= num_batches(addition_list)
    /\ spc = "send_transactions" =>
           /\ crash = NoError
           /\ Len(Batches) = batch_i
           /\ batch_i < num_batches(addition_list) => ENABLED SendBatch
    /\ spc = "sleep" => (crash = NoError /\ Len(Batches) = batch_i + 1)
    /\ spc = "done" => (crash = NoError /\ Len(Batches) = num_batches(addition_list))
    /\ spc = "crashed" =>
           /\ crash # NoError
           /\ Len(Batches) = batch_i + 1
           /\ events[Len(events)].kind = "send"

\* C25 happens: of three batches the first was answered with an error dictionary,
\* the second was sent all the same and its call raised, the third was never sent.
C25_Witness ==
    /\ spc = "crashed"
    /\ num_batches(addition_list) = 3
    /\ Len(Batches) = 2
    /\ Batches[1] # Batches[2]
    /\ Keys(transaction) = {"error"}


\* C26: with use_nft_value true no payment is sent on incomplete value data. A
\* failed request of fetch_nft_data raises nothing itself (it gives {}); the
\* subscript ['data'] on it raises KeyError inside nft_ownership_data, which ends
\* the run before the addition list is built and before any
\* send_transaction_multi call. Whenever a batch has been sent, every fetched NFT
\* of every collection is counted with the value of its own metadata.
C26_NoPaymentOnIncompleteValueData ==
    /\ crash = "KeyError: 'data'" =>
           /\ world.use_nft_value
           /\ spc = "crashed"
           /\ Len(nft_values) < Len(fc_items)
           /\ addition_list = <<>>
           /\ events = <<>>
    /\ (spc = "crashed" /\ events = <<>>) => crash = "KeyError: 'data'"
    /\ (world.use_nft_value /\ events # <<>>) =>
           /\ crash # "KeyError: 'data'"
           /\ \A k \in 1..Len(ownership) : \A j \in 1..Len(ownership[k].encoded_ids) :
                  ownership[k].nft_values[j] = NftValue(ownership[k].encoded_ids[j])
           /\ \A n \in 1..Len(nfts) : \E k \in 1..Len(ownership) :
                  \E j \in 1..Len(ownership[k].encoded_ids) :
                      ownership[k].encoded_ids[j] = nfts[n].encoded_id

\* C26 happens: the first collection was valued and aggregated, a value lookup in
\* the second collection failed after one that succeeded, and nothing was sent.
C26_Witness ==
    /\ world.use_nft_value
    /\ crash = "KeyError: 'data'"
    /\ ci = 2
    /\ Len(nft_values) = 1
    /\ ownership # <<>>
    /\ events = <<>>


\* the classes of the later revision whose methods are written inside try/except
CatchingClasses == {"SharedMethods", "CatWallet"}

\* the body of the last call
LastMethod == Method(call.cls, call.m, Bind(Signature(call.cls, call.m), call.kwargs))

\* the last call failed on the client side: building the body raised, or submit did
ClientSideFailure == LastMethod.err # NoError \/ SubmitFailed

\* the message of that exception
FailureMessage == IF LastMethod.err # NoError THEN LastMethod.err ELSE SubmitMessage

\* the daemon answers the request with the object {"error": m}
ErrorReply(m) ==
    [kind |-> "reply", msg |-> NoError, body |-> Body(<< <<"error", JsonStr(m)>> >>)]

\* what the last call's method returns, called with the arguments kw, when the
\* daemon answers {"error": m}
ReturnedOnErrorReply(kw, m) ==
    Run(Method(call.cls, call.m, Bind(Signature(call.cls, call.m), kw)), rpc, ErrorReply(m))

\* C27: for the methods that catch exceptions (SharedMethods and CatWallet of the
\* later revision), a call that failed on the client side with exception message
\* m returns the very value that a successful call of the method returns when the
\* daemon's response is the object {"error": m}: the two cannot be told apart by
\* the return value.
C27_FailureLooksLikeErrorReply ==
    (WrapperReturned /\ call.cls \in CatchingClasses /\ ClientSideFailure)
        => \A kw \in Kwargs(Signature(call.cls, call.m)) :
               LET o == ReturnedOnErrorReply(kw, FailureMessage)
               IN  o.sent = 1 => (o.result.kind = "return" /\ o.result = result)

\* C27 happens: cat_asset_id_to_name ended on a timeout, and what it returned is
\* what it returns when the daemon answers {"error": "Read timed out"}.
C27_Witness ==
    /\ WrapperReturned
    /\ call.cls = "CatWallet"
    /\ call.m = "cat_asset_id_to_name"
    /\ call.net.kind = "fail"
    /\ call.net.msg = "Read timed out"
    /\ ReturnedOnErrorReply(call.kwargs, "Read timed out").sent = 1
    /\ ReturnedOnErrorReply(call.kwargs, "Read timed out").result = result
    /\ result.value = << <<"error", PyStr("Read timed out")>> >>

====
